---- MODULE Spec2Model ----
(***************************************************************************)
(* A model of the jeevay mapping engine (src/jeevay/mapping), its ASCII    *)
(* renderer (src/jeevay/rendering), the map-load worker of the main        *)
(* window (src/jeevay/ui/main_window.py) and the map display               *)
(* (src/jeevay/ui/map_display.py).                                         *)
(*                                                                         *)
(* Numbers.  The program computes in IEEE doubles; the model computes in   *)
(* exact fixed point:                                                      *)
(*   - a latitude or longitude is an integer count of geo units, one geo   *)
(*     unit being 1/lat_to_meters degree, so that one unit of latitude is  *)
(*     one metre;                                                          *)
(*   - a projected coordinate ("metres") is an integer count of 1/Fix      *)
(*     metre;                                                              *)
(*   - cos(center_lat) is kept to one decimal place (CosFix);              *)
(*   - cell_size_meters is a whole number of metres and margin_factor a    *)
(*     whole number of tenths.                                             *)
(* There every int() of the program is the truncation of the exact         *)
(* quotient.  Where the rounding of the doubles decides the result, in     *)
(* _line_points and in the round trip of LocalProjection, the model        *)
(* computes in binary floating point of MantissaBits bits, rounded to      *)
(* nearest even after every operation.                                     *)
(***************************************************************************)
EXTENDS Integers, Sequences, FiniteSets, TLC

VARIABLES
    \* ---- one StreetNetwork object (street_network.py:54-74)
    streets,            \* list[Street]
    intersections,      \* list[Intersection]
    pedestrian_paths,   \* list[PedestrianPath]
    buildings,          \* list[Building]
    viewport_config,    \* ViewportConfig
    viewport_grid,      \* ViewportGrid, or None before build_grid
    projection,         \* LocalProjection, or None before build_grid
    extended_grid,      \* dict (x, y) -> GridCell
    grid_width,
    grid_height,
    center_lat,
    center_lon,
    \* ---- the last call made on the objects of the model and its outcome
    result,
    \* ---- one GridCell object on its own (get_priority_character)
    cell,
    \* ---- one MapDataCache object (map_cache.py:24-31)
    cache,
    \* ---- MainWindow and its load worker thread (main_window.py)
    current_network,    \* MainWindow.current_network
    current_address,    \* MainWindow.current_address
    worker,             \* the load worker threads started so far, in order
    ui_queue,           \* the wx.CallAfter calls the UI thread has not run yet
    window,             \* status bar, progress dialogs and message boxes
    map_display         \* the AccessibleMapDisplay and the text of its control

network_vars == <<streets, intersections, pedestrian_paths, buildings,
                  viewport_config, viewport_grid, projection, extended_grid,
                  grid_width, grid_height, center_lat, center_lon>>

window_vars == <<current_network, current_address, worker, ui_queue, window,
                 map_display>>

vars == <<streets, intersections, pedestrian_paths, buildings,
          viewport_config, viewport_grid, projection, extended_grid,
          grid_width, grid_height, center_lat, center_lon,
          result, cell, cache,
          current_network, current_address, worker, ui_queue, window,
          map_display>>

(***************************************************************************)
(* Python values                                                           *)
(***************************************************************************)
None == "None"

\* None where an object is expected (projection, viewport_grid, a cell)
NoneObject == [is_none |-> TRUE]

NoException == "no exception"

AttributeError == "AttributeError"

NoResult == [op |-> "none", args |-> <<>>, raised |-> NoException, ret |-> None]

Returned(op, args, value) ==
    [op |-> op, args |-> args, raised |-> NoException, ret |-> value]

Raised(op, args, exc) ==
    [op |-> op, args |-> args, raised |-> exc, ret |-> None]

\* int(): truncation toward zero of the exact quotient a / b, b > 0
TruncDiv(a, b) == IF a >= 0 THEN a \div b ELSE -((-a) \div b)

Abs(a) == IF a >= 0 THEN a ELSE -a

Max(a, b) == IF a >= b THEN a ELSE b

Min(a, b) == IF a <= b THEN a ELSE b

RECURSIVE ISqrtBetween(_, _, _)
\* the largest k in lo..hi with k * k <= n (lo * lo <= n assumed)
ISqrtBetween(n, lo, hi) ==
    IF lo >= hi THEN lo
    ELSE LET mid == (lo + hi + 1) \div 2
         IN  IF mid * mid <= n THEN ISqrtBetween(n, mid, hi)
             ELSE ISqrtBetween(n, lo, mid - 1)

\* floor(sqrt(n)) for 0 <= n < 2^31
ISqrt(n) == ISqrtBetween(n, 0, 46340)

(***************************************************************************)
(* Python float, at reduced width: a binary floating-point number with a   *)
(* significand of MantissaBits bits (53 in CPython), every operation       *)
(* rounded to nearest, ties to even, as IEEE 754 arithmetic is.  A value   *)
(* is sign * m * 2^e, with m = 0 or 2^(MantissaBits-1) <= m < 2^MantissaBits *)
(***************************************************************************)
\* wide enough to hold 111320 = 13915 * 2^3 exactly, as a double does
MantissaBits == 14

Pow2(k) == IF k <= 0 THEN 1 ELSE 2 ^ k

\* the number of bits of n, 0 <= n < 2^8
BitLength8(n) ==
    IF n < 16
    THEN IF n < 4 THEN (IF n < 2 THEN n ELSE 2) ELSE (IF n < 8 THEN 3 ELSE 4)
    ELSE IF n < 64 THEN (IF n < 32 THEN 5 ELSE 6)
         ELSE (IF n < 128 THEN 7 ELSE 8)

\* the number of bits of n, 0 <= n < 2^31
BitLength(n) ==
    IF n < 65536
    THEN IF n < 256 THEN BitLength8(n) ELSE 8 + BitLength8(n \div 256)
    ELSE IF n < 16777216 THEN 16 + BitLength8(n \div 65536)
         ELSE 24 + BitLength8(n \div 16777216)

FloatZero == [sign |-> 1, m |-> 0, e |-> 0]

\* the float nearest to sign * n * 2^e (n >= 0), ties to even
RoundToFloat(sign, n, e) ==
    LET k == BitLength(n) - MantissaBits
    IN  IF n = 0 THEN FloatZero
        ELSE IF k <= 0 THEN [sign |-> sign, m |-> n * Pow2(-k), e |-> e + k]
        ELSE LET q == n \div Pow2(k)
                 r == n % Pow2(k)
                 half == Pow2(k - 1)
                 up == r > half \/ (r = half /\ q % 2 = 1)
                 m == IF up THEN q + 1 ELSE q
             IN  IF m = Pow2(MantissaBits)
                 THEN [sign |-> sign, m |-> Pow2(MantissaBits - 1),
                       e |-> e + k + 1]
                 ELSE [sign |-> sign, m |-> m, e |-> e + k]

\* the float nearest to n * 2^e, n an integer
Float(n, e) == RoundToFloat(IF n < 0 THEN -1 ELSE 1, Abs(n), e)

\* float.__neg__
FloatNeg(a) == IF a.m = 0 THEN a ELSE [a EXCEPT !.sign = -a.sign]

\* float.__mul__
FloatMul(a, b) == RoundToFloat(a.sign * b.sign, a.m * b.m, a.e + b.e)

\* float.__truediv__, b nonzero: the quotient to MantissaBits + 2 bits and a
\* sticky bit for the remainder, then rounded
FloatDiv(a, b) ==
    LET shift == MantissaBits + 2
        q == (a.m * Pow2(shift)) \div b.m
        sticky == IF (a.m * Pow2(shift)) % b.m = 0 THEN 0 ELSE 1
    IN  RoundToFloat(a.sign * b.sign, 2 * q + sticky, a.e - b.e - shift - 1)

\* float.__add__: the exact sum when the exponents are at most
\* MantissaBits + 2 apart, else the operand of larger magnitude
FloatAdd(a, b) ==
    IF a.m = 0 THEN b
    ELSE IF b.m = 0 THEN a
    ELSE IF a.e - b.e > MantissaBits + 2 THEN a
    ELSE IF b.e - a.e > MantissaBits + 2 THEN b
    ELSE LET e == Min(a.e, b.e)
             n == a.sign * a.m * Pow2(a.e - e) + b.sign * b.m * Pow2(b.e - e)
         IN  RoundToFloat(IF n < 0 THEN -1 ELSE 1, Abs(n), e)

\* float.__sub__
FloatSub(a, b) == FloatAdd(a, FloatNeg(b))

(***************************************************************************)
(* Fixed point                                                             *)
(***************************************************************************)
\* projected coordinates count tenths of a metre
Fix == 10

\* cos(center_lat) counts tenths
CosFix == 10

\* margin_factor counts tenths
MarginFix == 10

(***************************************************************************)
(* coordinate_system.py: LocalProjection                                   *)
(***************************************************************************)
\* self.lat_to_meters = 111320.0; also the number of geo units in a degree
LatToMeters == 111320

\* round(CosFix * math.cos(math.radians(lat))) for a latitude in geo units
CosTenths(lat) ==
    LET d == Abs(lat) \div LatToMeters
    IN  IF d <= 18 THEN 10
        ELSE IF d <= 31 THEN 9
        ELSE IF d <= 41 THEN 8
        ELSE IF d <= 49 THEN 7
        ELSE IF d <= 56 THEN 6
        ELSE IF d <= 63 THEN 5
        ELSE IF d <= 69 THEN 4
        ELSE IF d <= 75 THEN 3
        ELSE IF d <= 81 THEN 2
        ELSE IF d <= 87 THEN 1
        ELSE 0

\* LocalProjection.__init__: the two factors, per geo unit, in 1/Fix metre
LocalProjection(lat, lon) ==
    [center_lat |-> lat,
     center_lon |-> lon,
     lat_to_meters |-> Fix,
     lon_to_meters |-> (Fix * CosTenths(lat)) \div CosFix]

\* LocalProjection.project_to_meters
project_to_meters(p, lat, lon) ==
    <<(lon - p.center_lon) * p.lon_to_meters,
      (lat - p.center_lat) * p.lat_to_meters>>

(***************************************************************************)
(* viewport.py: ViewportConfig, ViewportCalculator, ViewportGrid           *)
(***************************************************************************)
DefaultWidth == 40

DefaultHeight == 40

DefaultCellSizeMeters == 25

\* margin_factor: float = 1.2
DefaultMarginFactor == 12

ViewportConfig(w, h, c, m) ==
    [width |-> w, height |-> h, cell_size_meters |-> c, margin_factor |-> m]

DefaultViewportConfig ==
    ViewportConfig(DefaultWidth, DefaultHeight, DefaultCellSizeMeters,
                   DefaultMarginFactor)

\* calculate_required_radius without the "+ 1" of line 30
calculate_required_radius_truncated(config) ==
    LET width_meters == config.width * config.cell_size_meters
        height_meters == config.height * config.cell_size_meters
        q == (width_meters * width_meters + height_meters * height_meters)
                 * config.margin_factor * config.margin_factor
    IN  ISqrt(q) \div (2 * MarginFix)

\* calculate_required_radius dividing by margin_factor instead of multiplying
calculate_required_radius_margin_divided(config) ==
    LET width_meters == config.width * config.cell_size_meters
        height_meters == config.height * config.cell_size_meters
        q == (width_meters * width_meters + height_meters * height_meters)
                 * MarginFix * MarginFix
    IN  (ISqrt(q) \div (2 * config.margin_factor)) + 1

\* ViewportCalculator.calculate_required_radius:
\*   int(sqrt((w*c/2)^2 + (h*c/2)^2) * margin_factor) + 1
\* = floor(sqrt(((w*c)^2 + (h*c)^2) * m^2) / (2 * MarginFix)) + 1
calculate_required_radius(config) ==
    LET width_meters == config.width * config.cell_size_meters
        height_meters == config.height * config.cell_size_meters
        q == (width_meters * width_meters + height_meters * height_meters)
                 * config.margin_factor * config.margin_factor
    IN  (ISqrt(q) \div (2 * MarginFix)) + 1

\* self.extended_factor = 2.0
ExtendedFactor == 2

\* ViewportGrid.__init__
ViewportGrid(config) ==
    [visible_width |-> config.width,
     visible_height |-> config.height,
     extended_width |-> config.width * ExtendedFactor,
     extended_height |-> config.height * ExtendedFactor,
     viewport_offset_x |->
         (config.width * ExtendedFactor - config.width) \div 2,
     viewport_offset_y |->
         (config.height * ExtendedFactor - config.height) \div 2]

\* ViewportGrid.meters_to_extended_grid, x and y in 1/Fix metre:
\*   int(x / cell + extended_width / 2), int(-y / cell + extended_height / 2)
meters_to_extended_grid(vg, config, x, y) ==
    LET c == config.cell_size_meters * Fix
    IN  <<TruncDiv(2 * x + vg.extended_width * c, 2 * c),
          TruncDiv(2 * (-y) + vg.extended_height * c, 2 * c)>>

\* ViewportGrid.is_valid_extended_position
is_valid_extended_position(vg, gx, gy) ==
    /\ 0 <= gx /\ gx < vg.extended_width
    /\ 0 <= gy /\ gy < vg.extended_height

(***************************************************************************)
(* api/models.py: the typed geographic records                             *)
(***************************************************************************)
Street(name, coordinates) ==
    [name |-> name, coordinates |-> coordinates, street_type |-> "residential"]

PedestrianPath(name, coordinates) ==
    [name |-> name, coordinates |-> coordinates, path_type |-> "footway"]

Building(name, lat, lon, address) ==
    [name |-> name, lat |-> lat, lon |-> lon, address |-> address]

Intersection(lat, lon) ==
    [lat |-> lat, lon |-> lon, connecting_streets |-> <<>>]

(***************************************************************************)
(* street_network.py: GridCell                                             *)
(***************************************************************************)
\* GridCell(): the dataclass defaults after __post_init__
EmptyCell ==
    [has_street |-> FALSE, street_names |-> <<>>,
     has_pedestrian_path |-> FALSE, pedestrian_path_names |-> <<>>,
     has_building |-> FALSE, building_info |-> <<>>,
     is_intersection |-> FALSE, character |-> " "]

\* a plausible bug: the order the docstring gives (street highest priority)
get_priority_character_street_first(c) ==
    IF c.has_street THEN "."
    ELSE IF c.is_intersection THEN "+"
    ELSE IF c.has_pedestrian_path THEN "="
    ELSE IF c.has_building THEN "#"
    ELSE " "

\* GridCell.get_priority_character
get_priority_character(c) ==
    IF c.is_intersection THEN "+"
    ELSE IF c.has_street THEN "."
    ELSE IF c.has_pedestrian_path THEN "="
    ELSE IF c.has_building THEN "#"
    ELSE " "

(***************************************************************************)
(* street_network.py: StreetNetwork, rasterization                         *)
(***************************************************************************)
Contains(seq, e) == \E i \in 1..Len(seq) : seq[i] = e

\* "seq.append(e)" without the membership test
AppendAlways(seq, e) == Append(seq, e)

\* "if e not in seq: seq.append(e)"
AppendIfAbsent(seq, e) == IF Contains(seq, e) THEN seq ELSE Append(seq, e)

\* int() of a float: truncation toward zero
FloatToInt(a) ==
    IF a.e >= 0 THEN a.sign * a.m * Pow2(a.e)
    ELSE IF -a.e >= MantissaBits THEN 0
    ELSE a.sign * (a.m \div Pow2(-a.e))

\* i * x_step for an int i >= 0, which converts to a float exactly: the
\* product rounded
IntTimesFloat(i, a) == RoundToFloat(a.sign, i * a.m, a.e)

\* int(x1 + i * x_step), lines 161-162, x1 given as a float
LinePoint(x1, i, step) == FloatToInt(FloatAdd(x1, IntTimesFloat(i, step)))

\* _line_points with range(steps) in place of range(steps + 1)
_line_points_without_last(x1, y1, x2, y2) ==
    LET dx == Abs(x2 - x1)
        dy == Abs(y2 - y1)
        steps == Max(dx, dy)
        x_step == FloatDiv(Float(x2 - x1, 0), Float(steps, 0))
        y_step == FloatDiv(Float(y2 - y1, 0), Float(steps, 0))
        fx1 == Float(x1, 0)
        fy1 == Float(y1, 0)
    IN  IF dx = 0 /\ dy = 0 THEN <<(<<x1, y1>>)>>
        ELSE [k \in 1..steps |->
                 <<LinePoint(fx1, k - 1, x_step),
                   LinePoint(fy1, k - 1, y_step)>>]

\* StreetNetwork._line_points: the steps are floats, x_step = (x2 - x1) /
\* steps, and point i is (int(x1 + i * x_step), int(y1 + i * y_step))
_line_points(x1, y1, x2, y2) ==
    LET dx == Abs(x2 - x1)
        dy == Abs(y2 - y1)
        steps == Max(dx, dy)
        x_step == FloatDiv(Float(x2 - x1, 0), Float(steps, 0))
        y_step == FloatDiv(Float(y2 - y1, 0), Float(steps, 0))
        fx1 == Float(x1, 0)
        fy1 == Float(y1, 0)
    IN  IF dx = 0 /\ dy = 0 THEN <<(<<x1, y1>>)>>
        ELSE [k \in 1..(steps + 1) |->
                 <<LinePoint(fx1, k - 1, x_step),
                   LinePoint(fy1, k - 1, y_step)>>]

\* the extended-grid cell of a (lat, lon) vertex
VertexCell(p, vg, config, v) ==
    LET m == project_to_meters(p, v[1], v[2])
    IN  meters_to_extended_grid(vg, config, m[1], m[2])

\* the point loop body setting has_street without appending the name
MarkStreet_flag_only(grid, vg, pt, name) ==
    IF is_valid_extended_position(vg, pt[1], pt[2])
    THEN [grid EXCEPT ![pt] = [@ EXCEPT !.has_street = TRUE]]
    ELSE grid

\* the body of "for gx, gy in points" of _rasterize_streets
MarkStreet(grid, vg, pt, name) ==
    IF is_valid_extended_position(vg, pt[1], pt[2])
    THEN [grid EXCEPT ![pt] =
             [@ EXCEPT !.has_street = TRUE,
                       !.street_names = AppendIfAbsent(@, name)]]
    ELSE grid

\* the body of "for gx, gy in points" of _rasterize_pedestrian_paths
MarkPath(grid, vg, pt, name) ==
    IF is_valid_extended_position(vg, pt[1], pt[2])
    THEN [grid EXCEPT ![pt] =
             [@ EXCEPT !.has_pedestrian_path = TRUE,
                       !.pedestrian_path_names = AppendIfAbsent(@, name)]]
    ELSE grid

RECURSIVE MarkPoints(_, _, _, _, _, _)
\* "for gx, gy in points": points k..Len(pts), streets or paths
MarkPoints(grid, vg, pts, k, name, kind) ==
    IF k > Len(pts) THEN grid
    ELSE MarkPoints(IF kind = "street" THEN MarkStreet(grid, vg, pts[k], name)
                    ELSE MarkPath(grid, vg, pts[k], name),
                    vg, pts, k + 1, name, kind)

RECURSIVE RasterizeSegments(_, _, _, _, _, _, _)
\* "for i in range(len(coords_in_meters) - 1)": segments i..len-1 (1-based)
RasterizeSegments(grid, p, vg, config, f, i, kind) ==
    IF i > Len(f.coordinates) - 1 THEN grid
    ELSE LET a == VertexCell(p, vg, config, f.coordinates[i])
             b == VertexCell(p, vg, config, f.coordinates[i + 1])
             points == _line_points(a[1], a[2], b[1], b[2])
         IN  RasterizeSegments(
                 MarkPoints(grid, vg, points, 1, f.name, kind),
                 p, vg, config, f, i + 1, kind)

RECURSIVE RasterizeLines(_, _, _, _, _, _, _)
\* "for street in self.streets" / "for path in self.pedestrian_paths"
RasterizeLines(grid, p, vg, config, features, n, kind) ==
    IF n > Len(features) THEN grid
    ELSE RasterizeLines(
             RasterizeSegments(grid, p, vg, config, features[n], 1, kind),
             p, vg, config, features, n + 1, kind)

\* _rasterize_streets that stops after the first street of the list
_rasterize_streets_first_only(grid, p, vg, config, ss) ==
    RasterizeLines(grid, p, vg, config,
                   IF Len(ss) = 0 THEN ss ELSE <<ss[1]>>, 1, "street")

\* StreetNetwork._rasterize_streets
_rasterize_streets(grid, p, vg, config, ss) ==
    RasterizeLines(grid, p, vg, config, ss, 1, "street")

\* StreetNetwork._rasterize_pedestrian_paths
_rasterize_pedestrian_paths(grid, p, vg, config, ps) ==
    RasterizeLines(grid, p, vg, config, ps, 1, "path")

\* "building.address or ''"
AddressOrEmpty(address) == IF address = None THEN "" ELSE address

RECURSIVE _rasterize_buildings(_, _, _, _, _, _)
\* StreetNetwork._rasterize_buildings, buildings n..Len(bs)
_rasterize_buildings(grid, p, vg, config, bs, n) ==
    IF n > Len(bs) THEN grid
    ELSE LET b == bs[n]
             g == VertexCell(p, vg, config, <<b.lat, b.lon>>)
             tuple == <<b.name, AddressOrEmpty(b.address)>>
         IN  _rasterize_buildings(
                 IF is_valid_extended_position(vg, g[1], g[2])
                 THEN [grid EXCEPT ![g] =
                          [@ EXCEPT !.has_building = TRUE,
                                    !.building_info = AppendIfAbsent(@, tuple)]]
                 ELSE grid,
                 p, vg, config, bs, n + 1)

RECURSIVE _mark_intersections(_, _, _, _, _, _)
\* StreetNetwork._mark_intersections, intersections n..Len(is)
_mark_intersections(grid, p, vg, config, xs, n) ==
    IF n > Len(xs) THEN grid
    ELSE LET g == VertexCell(p, vg, config, <<xs[n].lat, xs[n].lon>>)
         IN  _mark_intersections(
                 IF is_valid_extended_position(vg, g[1], g[2])
                 THEN [grid EXCEPT ![g] = [@ EXCEPT !.is_intersection = TRUE]]
                 ELSE grid,
                 p, vg, config, xs, n + 1)

\* the grid of "for x in range(1, extended_width)": column 0 left out
InitialGrid_from_one(vg) ==
    [pos \in (1..(vg.extended_width - 1)) \X (0..(vg.extended_height - 1))
        |-> EmptyCell]

\* build_grid, lines 103-107: the dense grid of empty cells
InitialGrid(vg) ==
    [pos \in (0..(vg.extended_width - 1)) \X (0..(vg.extended_height - 1))
        |-> EmptyCell]

\* build_grid, lines 98-113: the grid it leaves in self.extended_grid
BuildGrid(config, ss, ps, bs, xs, lat, lon) ==
    LET p == LocalProjection(lat, lon)
        vg == ViewportGrid(config)
        g0 == InitialGrid(vg)
        g1 == _rasterize_streets(g0, p, vg, config, ss)
        g2 == _rasterize_pedestrian_paths(g1, p, vg, config, ps)
        g3 == _rasterize_buildings(g2, p, vg, config, bs, 1)
    IN  _mark_intersections(g3, p, vg, config, xs, 1)

(***************************************************************************)
(* street_network.py: StreetNetwork, queries                               *)
(***************************************************************************)
\* _is_valid_grid_pos with inclusive upper ends: "0 <= x <= grid_width"
_is_valid_grid_pos_inclusive(w, h, x, y) ==
    0 <= x /\ x <= w /\ 0 <= y /\ y <= h

\* StreetNetwork._is_valid_grid_pos
_is_valid_grid_pos(w, h, x, y) == 0 <= x /\ x < w /\ 0 <= y /\ y < h

\* StreetNetwork.get_cell_info: [raised, ret], ret a GridCell or NoneObject.
\* On a network whose build_grid never ran, self.viewport_grid is None and
\* line 226 raises AttributeError.
get_cell_info(grid, vg, w, h, x, y) ==
    IF ~_is_valid_grid_pos(w, h, x, y)
    THEN [raised |-> NoException, ret |-> NoneObject]
    ELSE IF vg = NoneObject
    THEN [raised |-> AttributeError, ret |-> NoneObject]
    ELSE LET ext_x == x + vg.viewport_offset_x
             ext_y == y + vg.viewport_offset_y
         IN  IF is_valid_extended_position(vg, ext_x, ext_y)
             THEN [raised |-> NoException, ret |-> grid[<<ext_x, ext_y>>]]
             ELSE [raised |-> NoException, ret |-> NoneObject]

RECURSIVE Join(_, _)
\* sep.join(seq)
Join(seq, sep) ==
    IF Len(seq) = 0 THEN ""
    ELSE IF Len(seq) = 1 THEN seq[1]
    ELSE seq[1] \o sep \o Join(Tail(seq), sep)

RECURSIVE Filter(_, _)
\* [name for name in seq if name != excluded]
Filter(seq, excluded) ==
    IF Len(seq) = 0 THEN <<>>
    ELSE IF seq[1] = excluded THEN Filter(Tail(seq), excluded)
    ELSE <<seq[1]>> \o Filter(Tail(seq), excluded)

\* get_cell_details, lines 272-278: one entry per building
BuildingDetail(info) ==
    IF info[2] # "" THEN "Building: " \o info[2]
    ELSE IF info[1] # "" /\ info[1] # "Unnamed Building"
    THEN "Building: " \o info[1]
    ELSE "Building"

\* get_cell_details, lines 239-280, for a cell that is not None
CellDetails(c) ==
    IF ~c.has_street /\ ~c.has_pedestrian_path /\ ~c.has_building
    THEN "Empty area"
    ELSE LET d1 == IF c.is_intersection THEN <<"Intersection">> ELSE <<>>
             d2 == IF Len(c.street_names) = 0 THEN <<>>
                   ELSE IF Len(c.street_names) = 1
                   THEN <<"Street: " \o c.street_names[1]>>
                   ELSE <<"Streets: " \o Join(c.street_names, ", ")>>
             named_paths == Filter(c.pedestrian_path_names, "Unnamed Path")
             d3 == IF Len(c.pedestrian_path_names) = 0 THEN <<>>
                   ELSE IF Len(named_paths) = 0 THEN <<"Pedestrian path">>
                   ELSE IF Len(named_paths) = 1
                   THEN <<"Pedestrian path: " \o named_paths[1]>>
                   ELSE <<"Pedestrian paths: " \o Join(named_paths, ", ")>>
             d4 == [k \in 1..Len(c.building_info) |->
                       BuildingDetail(c.building_info[k])]
             details == d1 \o d2 \o d3 \o d4
         IN  IF Len(details) = 0 THEN "Location" ELSE Join(details, " - ")

\* StreetNetwork.get_cell_details: [raised, ret]
get_cell_details(grid, vg, w, h, x, y) ==
    LET info == get_cell_info(grid, vg, w, h, x, y)
    IN  IF info.raised # NoException
        THEN [raised |-> info.raised, ret |-> None]
        ELSE IF info.ret = NoneObject
        THEN [raised |-> NoException, ret |-> "Invalid position"]
        ELSE [raised |-> NoException, ret |-> CellDetails(info.ret)]

\* the names class StreetNetwork defines (street_network.py:51-284), with the
\* attributes __init__ sets; any other name raises AttributeError
StreetNetworkAttributes ==
    {"streets", "intersections", "pedestrian_paths", "buildings",
     "projection", "grid_mapper", "viewport_grid", "viewport_config",
     "extended_grid", "grid_width", "grid_height", "center_lat",
     "center_lon", "viewport_calculator",
     "add_streets", "add_intersections", "add_pedestrian_paths",
     "add_buildings", "build_grid", "_rasterize_streets", "_line_points",
     "_rasterize_pedestrian_paths", "_rasterize_buildings",
     "_mark_intersections", "_is_valid_grid_pos", "get_cell_info",
     "get_cell_details", "get_required_radius"}

(***************************************************************************)
(* ascii_renderer.py: ASCIIRenderer                                        *)
(* A line is the sequence of its characters.                               *)
(***************************************************************************)
NoMapDataLine ==
    <<"N", "o", " ", "m", "a", "p", " ", "d", "a", "t", "a", " ",
      "a", "v", "a", "i", "l", "a", "b", "l", "e">>

\* ASCIIRenderer._get_cell_character
_get_cell_character(c) ==
    IF c = NoneObject THEN " " ELSE get_priority_character(c)

RECURSIVE strip(_)
\* str.strip() of a line of map characters: both ends stripped
strip(line) ==
    IF Len(line) = 0 THEN line
    ELSE IF line[1] = " " THEN strip(Tail(line))
    ELSE IF line[Len(line)] = " " THEN strip(SubSeq(line, 1, Len(line) - 1))
    ELSE line

RECURSIVE rstrip(_)
\* str.rstrip() of a line of map characters
rstrip(line) ==
    IF Len(line) = 0 THEN line
    ELSE IF line[Len(line)] = " " THEN rstrip(SubSeq(line, 1, Len(line) - 1))
    ELSE line

RECURSIVE DropTrailingEmpty(_)
\* "while lines and not lines[-1].strip(): lines.pop()"
DropTrailingEmpty(lines) ==
    IF Len(lines) = 0 THEN lines
    ELSE IF Len(rstrip(lines[Len(lines)])) = 0
    THEN DropTrailingEmpty(SubSeq(lines, 1, Len(lines) - 1))
    ELSE lines

\* ASCIIRenderer.render_map: [raised, ret]
render_map(grid, vg, w, h) ==
    IF w = 0 \/ h = 0
    THEN [raised |-> NoException, ret |-> <<NoMapDataLine>>]
    ELSE IF vg = NoneObject
    THEN [raised |-> AttributeError, ret |-> None]
    ELSE LET row(y) == [x \in 1..w |->
                 _get_cell_character(
                     get_cell_info(grid, vg, w, h, x - 1, y - 1).ret)]
             lines == [y \in 1..h |-> rstrip(row(y))]
         IN  [raised |-> NoException, ret |-> DropTrailingEmpty(lines)]

\* the street names of the inputs in the order sorted() gives them (by
\* code point: capitals before small letters)
SortedNameOrder == <<"Dot Ln", "Main St", "Oak Ave", "main st">>

RECURSIVE SortedNames(_, _)
\* sorted(names), for a set of names of SortedNameOrder, from entry k on
SortedNames(names, k) ==
    IF k > Len(SortedNameOrder) THEN <<>>
    ELSE (IF SortedNameOrder[k] \in names
          THEN <<SortedNameOrder[k]>> ELSE <<>>)
             \o SortedNames(names, k + 1)

\* GridFormatter.get_map_summary
get_map_summary(ss, ps, bs, w, h) ==
    LET street_names == {ss[i].name : i \in {k \in 1..Len(ss) :
                             ss[k].name # "" /\ ss[k].name # "Unnamed Street"}}
        p1 == IF Len(ss) = 0 THEN <<>>
              ELSE <<ToString(Len(ss)) \o " street(s)">>
                   \o (IF street_names = {} THEN <<>>
                       ELSE IF Cardinality(street_names) <= 5
                       THEN <<"Streets: "
                                  \o Join(SortedNames(street_names, 1), ", ")>>
                       ELSE <<"Including "
                                  \o ToString(Cardinality(street_names))
                                  \o " named streets">>)
        p2 == IF Len(ps) = 0 THEN <<>>
              ELSE <<ToString(Len(ps)) \o " pedestrian path(s)">>
        p3 == IF Len(bs) = 0 THEN <<>>
              ELSE <<ToString(Len(bs)) \o " building(s)">>
        p4 == IF w # 0 /\ h # 0
              THEN <<"Map size: " \o ToString(w) \o " by " \o ToString(h)
                         \o " cells">>
              ELSE <<>>
        summary_parts == p1 \o p2 \o p3 \o p4
    IN  IF Len(summary_parts) = 0
        THEN "No map data found in this area."
        ELSE "Map contains " \o Join(summary_parts, ", ") \o "."

(***************************************************************************)
(* Inputs of the engine specification                                      *)
(***************************************************************************)
\* bound of the model: the number of features one network holds
MaxFeatures == 3

\* 60 degrees north, in geo units
Lat60 == 60 * LatToMeters

\* a 3 x 2 viewport of 10 m cells: a 6 x 4 extended grid
EngineConfigs == {ViewportConfig(3, 2, 10, DefaultMarginFactor)}

\* the centers of build_grid; at 60 degrees a unit of longitude is half a metre
Centers == {<<Lat60, 0>>, <<Lat60 + 5, 20>>}

\* a street of one vertex, inside the grid of either center
DotLane == Street("Dot Ln", <<(<<Lat60 + 5, 10>>)>>)

\* Oak Ave has three vertices, the last one outside the extended grid
StreetCatalogue ==
    {Street("Main St", <<(<<Lat60, -30>>), (<<Lat60, 30>>)>>),
     Street("Oak Ave", <<(<<Lat60 + 15, 10>>), (<<Lat60 - 5, 10>>),
                         (<<Lat60 - 5, 90>>)>>),
     DotLane}

PathCatalogue ==
    {PedestrianPath("Unnamed Path", <<(<<Lat60 + 5, -10>>), (<<Lat60 + 5, 10>>)>>),
     PedestrianPath("River Walk", <<(<<Lat60 - 15, -50>>), (<<Lat60 + 5, -10>>)>>)}

BuildingCatalogue ==
    {Building("Cafe", Lat60, 10, "12 Main St"),
     Building("Unnamed Building", Lat60 + 5, 10, None)}

IntersectionCatalogue == {Intersection(Lat60, 10), Intersection(Lat60 + 100, 200)}

\* the zoom factors of the display, in hundredths (0.8 and 1.25), and 0
ZoomInFactor == 80

ZoomOutFactor == 125

ZoomFactors == {0, ZoomInFactor, ZoomOutFactor}

(***************************************************************************)
(* Initial values of the objects                                           *)
(***************************************************************************)
\* StreetNetwork.__init__(viewport_config)
NetworkInit(config) ==
    /\ streets = <<>>
    /\ intersections = <<>>
    /\ pedestrian_paths = <<>>
    /\ buildings = <<>>
    /\ projection = NoneObject
    /\ viewport_grid = NoneObject
    /\ viewport_config = config
    /\ extended_grid = [pos \in {} |-> EmptyCell]
    /\ grid_width = config.width
    /\ grid_height = config.height
    /\ center_lat = 0
    /\ center_lon = 0

\* MapDataCache.__init__
NewMapDataCache ==
    [streets |-> <<>>, intersections |-> <<>>, pedestrian_paths |-> <<>>,
     buildings |-> <<>>, center_lat |-> 0, center_lon |-> 0,
     fetch_radius |-> 0]

\* AccessibleMapDisplay.__init__: no network, no lines, an empty control
NewMapDisplay ==
    [network |-> NoneObject, map_lines |-> <<>>,
     last_cursor_grid_y |-> -1, last_cursor_grid_x |-> -1,
     legend_line_y |-> -1, legend_start_pos |-> 0, legend_length |-> 0,
     value |-> "", insertion_point |-> 0]

\* MainWindow.__init__, lines 29-31, no load running
WindowInit ==
    /\ current_network = NoneObject
    /\ current_address = NoneObject
    /\ worker = <<>>
    /\ ui_queue = <<>>
    /\ window = [status |-> "Ready - Press Ctrl+N to enter a new address",
                 dialogs |-> <<>>, messages |-> <<>>]
    /\ map_display = NewMapDisplay

(***************************************************************************)
(* The engine: the operations of one StreetNetwork                         *)
(***************************************************************************)
\* The callers of the repository add features to a network build_grid has
\* not run on yet (main_window.py:261-265); the model does the same, and
\* holds at most MaxFeatures features.
CanAdd(batch) ==
    /\ viewport_grid = NoneObject
    /\ Len(streets) + Len(intersections) + Len(pedestrian_paths)
           + Len(buildings) + Len(batch) <= MaxFeatures

\* StreetNetwork.add_streets
add_streets(batch) ==
    /\ CanAdd(batch)
    /\ streets' = streets \o batch
    /\ result' = Returned("add_streets", <<batch>>, None)
    /\ UNCHANGED <<intersections, pedestrian_paths, buildings,
                   viewport_config, viewport_grid, projection, extended_grid,
                   grid_width, grid_height, center_lat, center_lon>>
    /\ UNCHANGED <<cell, cache>>
    /\ UNCHANGED window_vars

\* StreetNetwork.add_intersections
add_intersections(batch) ==
    /\ CanAdd(batch)
    /\ intersections' = intersections \o batch
    /\ result' = Returned("add_intersections", <<batch>>, None)
    /\ UNCHANGED <<streets, pedestrian_paths, buildings,
                   viewport_config, viewport_grid, projection, extended_grid,
                   grid_width, grid_height, center_lat, center_lon>>
    /\ UNCHANGED <<cell, cache>>
    /\ UNCHANGED window_vars

\* StreetNetwork.add_pedestrian_paths
add_pedestrian_paths(batch) ==
    /\ CanAdd(batch)
    /\ pedestrian_paths' = pedestrian_paths \o batch
    /\ result' = Returned("add_pedestrian_paths", <<batch>>, None)
    /\ UNCHANGED <<streets, intersections, buildings,
                   viewport_config, viewport_grid, projection, extended_grid,
                   grid_width, grid_height, center_lat, center_lon>>
    /\ UNCHANGED <<cell, cache>>
    /\ UNCHANGED window_vars

\* StreetNetwork.add_buildings
add_buildings(batch) ==
    /\ CanAdd(batch)
    /\ buildings' = buildings \o batch
    /\ result' = Returned("add_buildings", <<batch>>, None)
    /\ UNCHANGED <<streets, intersections, pedestrian_paths,
                   viewport_config, viewport_grid, projection, extended_grid,
                   grid_width, grid_height, center_lat, center_lon>>
    /\ UNCHANGED <<cell, cache>>
    /\ UNCHANGED window_vars

\* StreetNetwork.build_grid
build_grid(lat, lon) ==
    /\ center_lat' = lat
    /\ center_lon' = lon
    /\ projection' = LocalProjection(lat, lon)
    /\ viewport_grid' = ViewportGrid(viewport_config)
    /\ extended_grid' = BuildGrid(viewport_config, streets, pedestrian_paths,
                                  buildings, intersections, lat, lon)
    /\ result' = Returned("build_grid", <<lat, lon>>, None)
    /\ UNCHANGED <<streets, intersections, pedestrian_paths, buildings,
                   viewport_config, grid_width, grid_height>>
    /\ UNCHANGED <<cell, cache>>
    /\ UNCHANGED window_vars

\* a call of StreetNetwork.get_cell_details
Call_get_cell_details(x, y) ==
    /\ LET r == get_cell_details(extended_grid, viewport_grid,
                                 grid_width, grid_height, x, y)
       IN  result' = [op |-> "get_cell_details", args |-> <<x, y>>,
                      raised |-> r.raised, ret |-> r.ret]
    /\ UNCHANGED network_vars
    /\ UNCHANGED <<cell, cache>>
    /\ UNCHANGED window_vars

\* a call of ASCIIRenderer.render_map on the network
Call_render_map ==
    /\ LET r == render_map(extended_grid, viewport_grid,
                           grid_width, grid_height)
       IN  result' = [op |-> "render_map", args |-> <<>>,
                      raised |-> r.raised, ret |-> r.ret]
    /\ UNCHANGED network_vars
    /\ UNCHANGED <<cell, cache>>
    /\ UNCHANGED window_vars

\* StreetNetwork.get_required_radius
Call_get_required_radius ==
    /\ result' = Returned("get_required_radius", <<>>,
                          calculate_required_radius(viewport_config))
    /\ UNCHANGED network_vars
    /\ UNCHANGED <<cell, cache>>
    /\ UNCHANGED window_vars

\* a call network.<name>(args) of a name the class does not define: the
\* attribute lookup raises before anything runs
CallUndefined(name, args) ==
    /\ name \notin StreetNetworkAttributes
    /\ result' = Raised(name, args, AttributeError)
    /\ UNCHANGED network_vars
    /\ UNCHANGED <<cell, cache>>
    /\ UNCHANGED window_vars

\* network.zoom_at_cursor(grid_x, grid_y, zoom_factor), as map_display.py:333
\* and :362 call it
zoom_at_cursor(x, y, f) == CallUndefined("zoom_at_cursor", <<x, y, f>>)

\* network.rebuild_grid(lat, lon), as main_window.py:383 calls it
rebuild_grid(lat, lon) == CallUndefined("rebuild_grid", <<lat, lon>>)

\* network.grid_to_latlon(grid_x, grid_y), as map_display.py:390 calls it
grid_to_latlon(x, y) == CallUndefined("grid_to_latlon", <<x, y>>)

Init ==
    /\ \E config \in EngineConfigs : NetworkInit(config)
    /\ result = NoResult
    /\ cell = EmptyCell
    /\ cache = NewMapDataCache
    /\ WindowInit

\* a feature is given to the network once (a list holding the same name
\* twice is the subject of SpecOrder below)
Next ==
    \/ \E s \in StreetCatalogue :
           ~Contains(streets, s) /\ add_streets(<<s>>)
    \/ \E x \in IntersectionCatalogue :
           ~Contains(intersections, x) /\ add_intersections(<<x>>)
    \/ \E p \in PathCatalogue :
           ~Contains(pedestrian_paths, p) /\ add_pedestrian_paths(<<p>>)
    \/ \E b \in BuildingCatalogue :
           ~Contains(buildings, b) /\ add_buildings(<<b>>)
    \/ \E c \in Centers : build_grid(c[1], c[2])
    \/ \E x \in -1..grid_width, y \in -1..grid_height :
           Call_get_cell_details(x, y)
    \/ Call_render_map
    \/ Call_get_required_radius
    \/ \E x \in {0, grid_width \div 2}, f \in ZoomFactors :
           zoom_at_cursor(x, grid_height \div 2, f)
    \/ \E c \in Centers : rebuild_grid(c[1], c[2])
    \/ grid_to_latlon(grid_width \div 2, grid_height \div 2)

Spec == Init /\ [][Next]_vars

(***************************************************************************)
(* GridCell on its own: get_priority_character over every cell             *)
(***************************************************************************)
\* the cells GridCell(...) can construct over two names per list: the four
\* flags are independent of the lists and of each other
CellInputs ==
    [has_street : BOOLEAN,
     street_names : {<<>>, <<"Main St">>, <<"Main St", "Oak Ave">>},
     has_pedestrian_path : BOOLEAN,
     pedestrian_path_names : {<<>>, <<"River Walk">>},
     has_building : BOOLEAN,
     building_info : {<<>>, <<(<<"Cafe", "12 Main St">>)>>},
     is_intersection : BOOLEAN,
     character : {" "}]

\* GridCell(...): a new cell replaces the one held
NewGridCell(c) ==
    /\ cell' = c
    /\ result' = NoResult
    /\ UNCHANGED network_vars
    /\ UNCHANGED cache
    /\ UNCHANGED window_vars

\* cell.get_priority_character()
Call_get_priority_character ==
    /\ result' = Returned("get_priority_character", <<>>,
                          get_priority_character(cell))
    /\ UNCHANGED network_vars
    /\ UNCHANGED <<cell, cache>>
    /\ UNCHANGED window_vars

InitCell ==
    /\ NetworkInit(DefaultViewportConfig)
    /\ result = NoResult
    /\ cell \in CellInputs
    /\ cache = NewMapDataCache
    /\ WindowInit

NextCell ==
    \/ \E c \in CellInputs : NewGridCell(c)
    \/ Call_get_priority_character

SpecCell == InitCell /\ [][NextCell]_vars

(***************************************************************************)
(* The "Main St" scenario: the default viewport, one street of two         *)
(* vertices 50 m west and 50 m east of the center                          *)
(***************************************************************************)
\* 73 degrees west, in geo units
Lon73W == -73 * LatToMeters

\* centers at which 50 m of longitude is a whole number of geo units
MainStCenters == {<<0, 0>>, <<Lat60, Lon73W>>}

\* the geo units of longitude in 50 m at a center
FiftyMeters(lat, lon) == (50 * Fix) \div LocalProjection(lat, lon).lon_to_meters

MainStreetAt(lat, lon) ==
    Street("Main St", <<(<<lat, lon - FiftyMeters(lat, lon)>>),
                        (<<lat, lon + FiftyMeters(lat, lon)>>)>>)

\* the display reads the details of the cell under the cursor
\* (map_display.py:153); the cursor starts at the middle of the map
\* (main_window.py:289-291) and moves by one cell
CursorPosition ==
    IF result.op = "get_cell_details" THEN result.args
    ELSE <<grid_width \div 2, grid_height \div 2>>

\* bound of the model: the cursor stays within this many rows of the middle
MaxCursorRows == 2

MoveCursorAndRead(dx, dy) ==
    /\ viewport_grid # NoneObject
    /\ Abs(CursorPosition[2] + dy - grid_height \div 2) <= MaxCursorRows
    /\ _is_valid_grid_pos(grid_width, grid_height,
                          CursorPosition[1] + dx, CursorPosition[2] + dy)
    /\ Call_get_cell_details(CursorPosition[1] + dx, CursorPosition[2] + dy)

\* build_grid at the center the street was fetched around
BuildAtStreetCenter(c) ==
    /\ streets = <<MainStreetAt(c[1], c[2])>>
    /\ build_grid(c[1], c[2])

InitMainSt ==
    /\ NetworkInit(DefaultViewportConfig)
    /\ result = NoResult
    /\ cell = EmptyCell
    /\ cache = NewMapDataCache
    /\ WindowInit

NextMainSt ==
    \/ \E c \in MainStCenters :
           /\ Len(streets) = 0
           /\ add_streets(<<MainStreetAt(c[1], c[2])>>)
    \/ \E c \in MainStCenters : BuildAtStreetCenter(c)
    \/ \E d \in {<<0, 0>>, <<1, 0>>, <<-1, 0>>, <<0, 1>>, <<0, -1>>} :
           MoveCursorAndRead(d[1], d[2])
    \/ Call_render_map

SpecMainSt == InitMainSt /\ [][NextMainSt]_vars

(***************************************************************************)
(* map_display.py: AccessibleMapDisplay, a read-only multi-line            *)
(* wx.TextCtrl.  The text of the control is a string and positions in it   *)
(* count from 0; a display is the record of the object's fields together   *)
(* with the control's value and insertion point.                           *)
(***************************************************************************)
\* the string of a rendered line, which the model keeps as its characters
LineText(line) == Join(line, "")

\* "\n".join(lines)
MapText(lines) == Join([i \in 1..Len(lines) |-> LineText(lines[i])], "\n")

\* wx.TextCtrl.Remove(from, to): the characters from..to-1 are deleted; an
\* insertion point behind them moves up, one inside them moves to from
TextCtrlRemove(d, from, to) ==
    LET a == Min(from, Len(d.value))
        b == Min(Max(to, a), Len(d.value))
        p == d.insertion_point
    IN  [d EXCEPT
            !.value = SubSeq(d.value, 1, a) \o SubSeq(d.value, b + 1, Len(d.value)),
            !.insertion_point = IF p >= b THEN p - (b - a)
                                ELSE IF p > a THEN a ELSE p]

\* wx.TextCtrl.SetInsertionPoint(pos): a position past the end is the end
SetInsertionPoint(d, pos) ==
    [d EXCEPT !.insertion_point = Min(Max(pos, 0), Len(d.value))]

\* wx.TextCtrl.WriteText(text): written at the insertion point, which ends
\* behind the written text
WriteText(d, text) ==
    LET p == d.insertion_point
    IN  [d EXCEPT
            !.value = SubSeq(d.value, 1, p) \o text
                          \o SubSeq(d.value, p + 1, Len(d.value)),
            !.insertion_point = p + Len(text)]

\* AccessibleMapDisplay.set_map_data
set_map_data(d, network, lines) ==
    [d EXCEPT
        !.network = network,
        !.map_lines = lines,
        !.last_cursor_grid_y = -1,
        !.legend_line_y = -1,
        !.legend_start_pos = 0,
        !.legend_length = 0,
        !.value = MapText(lines),
        !.insertion_point = 0]

\* AccessibleMapDisplay.get_cursor_grid_position: <<grid_x, grid_y>>, the
\* column and the line of the insertion point in the control's text
get_cursor_grid_position(d) ==
    LET cursor_pos == d.insertion_point
        newlines == {i \in 1..cursor_pos : SubSeq(d.value, i, i) = "\n"}
        line_start == IF newlines = {} THEN 0
                      ELSE CHOOSE i \in newlines : \A j \in newlines : j <= i
    IN  <<cursor_pos - line_start, Cardinality(newlines)>>

RECURSIVE LengthOfLinesBefore(_, _)
\* "for i in range(grid_y): if i < len(self.map_lines):
\*      text_pos += len(self.map_lines[i]) + 1"
LengthOfLinesBefore(lines, grid_y) ==
    IF grid_y <= 0 THEN 0
    ELSE LengthOfLinesBefore(lines, grid_y - 1)
             + (IF grid_y - 1 < Len(lines) THEN Len(lines[grid_y]) + 1 ELSE 0)

\* AccessibleMapDisplay._get_text_position
_get_text_position(d, grid_y, grid_x) ==
    LengthOfLinesBefore(d.map_lines, grid_y) + grid_x

\* AccessibleMapDisplay.set_cursor_position
set_cursor_position(d, grid_x, grid_y) ==
    IF Len(d.map_lines) = 0 \/ grid_y >= Len(d.map_lines) THEN d
    ELSE SetInsertionPoint(d,
             LengthOfLinesBefore(d.map_lines, grid_y)
                 + Min(grid_x, Len(d.map_lines[grid_y + 1])))

\* AccessibleMapDisplay.invalidate_cursor_position
invalidate_cursor_position(d) ==
    [d EXCEPT !.legend_line_y = -1,
              !.legend_length = 0,
              !.last_cursor_grid_y = -1]

\* AccessibleMapDisplay._remove_legend_from_line
_remove_legend_from_line(d, line_y) ==
    IF d.legend_length = 0 \/ d.legend_start_pos < 0 THEN d
    ELSE [TextCtrlRemove(d, d.legend_start_pos,
                         d.legend_start_pos + d.legend_length)
             EXCEPT !.legend_line_y = -1,
                    !.legend_length = 0,
                    !.legend_start_pos = 0]

\* self.network.get_cell_details(grid_x, line_y) of the display's network
DisplayCellDetails(d, grid_x, line_y) ==
    get_cell_details(d.network.extended_grid, d.network.viewport_grid,
                     d.network.grid_width, d.network.grid_height,
                     grid_x, line_y)

\* the details for which no legend is written (line 156)
NothingToAnnounce == {"", "Empty area", "Invalid position", "Location"}

\* AccessibleMapDisplay._add_legend_to_line; when get_cell_details raises,
\* nothing has been written yet
_add_legend_to_line(d, line_y, grid_x) ==
    IF ~(0 <= line_y /\ line_y < Len(d.map_lines)) THEN d
    ELSE LET details == DisplayCellDetails(d, grid_x, line_y)
             text_pos == _get_text_position(d, line_y,
                                            Len(d.map_lines[line_y + 1]))
             legend_text == " " \o details.ret
         IN  IF details.raised # NoException THEN d
             ELSE IF details.ret \in NothingToAnnounce THEN d
             ELSE [WriteText(SetInsertionPoint(d, text_pos), legend_text)
                      EXCEPT !.legend_line_y = line_y,
                             !.legend_start_pos = text_pos,
                             !.legend_length = Len(legend_text)]

\* update_legend_for_line that adds the new legend without removing the
\* old one
update_legend_for_line_without_removal(d, grid_y, grid_x) ==
    _add_legend_to_line(d, grid_y, grid_x)

\* AccessibleMapDisplay.update_legend_for_line
update_legend_for_line(d, grid_y, grid_x) ==
    _add_legend_to_line(
        IF d.legend_line_y >= 0 /\ d.legend_length > 0
        THEN _remove_legend_from_line(d, d.legend_line_y)
        ELSE d,
        grid_y, grid_x)

\* whether the get_cell_details call of _add_legend_to_line raises
AddLegendRaises(d, line_y, grid_x) ==
    /\ 0 <= line_y /\ line_y < Len(d.map_lines)
    /\ DisplayCellDetails(d, grid_x, line_y).raised # NoException

\* AccessibleMapDisplay.on_cursor_poll_timer; an exception of
\* get_cell_details leaves the handler before the cursor is restored
on_cursor_poll_timer(d) ==
    IF d.network = NoneObject \/ Len(d.map_lines) = 0 THEN d
    ELSE LET pos == get_cursor_grid_position(d)
             grid_x == pos[1]
             grid_y == pos[2]
             current_insertion_point == d.insertion_point
             insertion_adjustment ==
                 IF d.legend_line_y >= 0 /\ d.legend_line_y < grid_y
                 THEN -d.legend_length ELSE 0
             updated == update_legend_for_line(d, grid_y, grid_x)
             adjusted_position == current_insertion_point + insertion_adjustment
         IN  IF grid_y = d.last_cursor_grid_y /\ grid_x = d.last_cursor_grid_x
             THEN d
             ELSE IF AddLegendRaises(updated, grid_y, grid_x) THEN updated
             ELSE [(IF adjusted_position >= 0
                    THEN SetInsertionPoint(updated, adjusted_position)
                    ELSE updated)
                      EXCEPT !.last_cursor_grid_y = grid_y,
                             !.last_cursor_grid_x = grid_x]

\* AccessibleMapDisplay._handle_arrow_navigation for the keys UP and DOWN
_handle_arrow_navigation(d, key_code) ==
    LET pos == get_cursor_grid_position(d)
        max_x == IF pos[2] < Len(d.map_lines)
                 THEN Len(d.map_lines[pos[2] + 1]) ELSE 0
        grid_x == IF max_x > 0 THEN Min(pos[1], max_x - 1) ELSE 0
        grid_y == IF key_code = "UP" THEN Max(0, pos[2] - 1)
                  ELSE IF key_code = "DOWN"
                  THEN Min(Len(d.map_lines) - 1, pos[2] + 1)
                  ELSE pos[2]
    IN  set_cursor_position(d, grid_x, grid_y)

\* AccessibleMapDisplay.zoom_in and zoom_out: [raised, display].  Without a
\* network "No map loaded" is spoken; with one, network.zoom_at_cursor is
\* looked up, and only a call that returns true goes on to
\* invalidate_cursor_position
zoom_in(d) ==
    IF d.network = NoneObject
    THEN [raised |-> NoException, display |-> d]
    ELSE IF "zoom_at_cursor" \notin StreetNetworkAttributes
    THEN [raised |-> AttributeError, display |-> d]
    ELSE [raised |-> NoException, display |-> invalidate_cursor_position(d)]

zoom_out(d) ==
    IF d.network = NoneObject
    THEN [raised |-> NoException, display |-> d]
    ELSE IF "zoom_at_cursor" \notin StreetNetworkAttributes
    THEN [raised |-> AttributeError, display |-> d]
    ELSE [raised |-> NoException, display |-> invalidate_cursor_position(d)]

\* AccessibleMapDisplay.recenter_map: [raised, display].
\* network.grid_to_latlon (line 390) and network.data_cache (line 393) are
\* looked up before invalidate_cursor_position (line 396)
recenter_map(d) ==
    IF d.network = NoneObject
    THEN [raised |-> NoException, display |-> d]
    ELSE IF "grid_to_latlon" \notin StreetNetworkAttributes
            \/ "data_cache" \notin StreetNetworkAttributes
    THEN [raised |-> AttributeError, display |-> d]
    ELSE [raised |-> NoException, display |-> invalidate_cursor_position(d)]

\* the keys on_key_down tells apart; LEFT and RIGHT stand for the keys it
\* leaves to the control (event.Skip)
DisplayKeys == {"UP", "DOWN", "LEFT", "RIGHT", "+", "-", "RETURN"}

\* AccessibleMapDisplay.on_key_down: [raised, display]
on_key_down(d, key_code) ==
    CASE key_code = "+" -> zoom_in(d)
      [] key_code = "-" -> zoom_out(d)
      [] key_code = "RETURN" -> recenter_map(d)
      [] key_code \in {"UP", "DOWN"} ->
             [raised |-> NoException,
              display |-> _handle_arrow_navigation(d, key_code)]
      [] key_code = "LEFT" ->
             [raised |-> NoException,
              display |-> SetInsertionPoint(d, d.insertion_point - 1)]
      [] key_code = "RIGHT" ->
             [raised |-> NoException,
              display |-> SetInsertionPoint(d, d.insertion_point + 1)]

(***************************************************************************)
(* main_window.py: loading a map.  load_map_data runs on the UI thread and *)
(* starts a worker thread; the worker hands its results to the UI thread   *)
(* with wx.CallAfter, which queues a call the UI thread runs later.        *)
(***************************************************************************)
\* bound of the model: the loads started in one run
MaxLoads == 1

\* bound of the model: the fetches that fail in one run, over all loads
MaxFailedFetches == 2

Categories == <<"streets", "intersections", "paths", "buildings">>

\* What one call of OverpassAPI.get_*_around does (street_data.py):
\*   "data"              it returns the records it parsed;
\*   "request_exception" requests.RequestException, caught inside the client,
\*                       which returns [] (lines 55-57, 88-90, 133-135,
\*                       196-198);
\*   "other_exception"   any other exception (a KeyError on a malformed
\*                       element, lines 34, 78, 176), which leaves the client.
FetchOutcomes == {"data", "request_exception", "other_exception"}

\* the address of a search result, and what the provider holds around it
AddressCatalogue ==
    {[display_name |-> "1 Main St", lat |-> Lat60, lon |-> 0, place_id |-> "1"]}

ProviderData ==
    [streets |-> <<Street("Main St", <<(<<Lat60, -300>>), (<<Lat60, 300>>)>>)>>,
     intersections |-> <<Intersection(Lat60, 100)>>,
     paths |-> <<PedestrianPath("River Walk",
                                <<(<<Lat60 + 50, -100>>), (<<Lat60 + 50, 100>>)>>)>>,
     buildings |-> <<Building("Cafe", Lat60 + 25, 100, "12 Main St")>>]

\* a StreetNetwork object as a value: StreetNetwork.__init__
NewStreetNetwork(config) ==
    [streets |-> <<>>, intersections |-> <<>>, pedestrian_paths |-> <<>>,
     buildings |-> <<>>, projection |-> NoneObject,
     viewport_grid |-> NoneObject, viewport_config |-> config,
     extended_grid |-> [pos \in {} |-> EmptyCell],
     grid_width |-> config.width, grid_height |-> config.height,
     center_lat |-> 0, center_lon |-> 0]

\* add_streets, add_intersections, add_pedestrian_paths, add_buildings and
\* build_grid on a network value (main_window.py:261-265)
AddAllAndBuild(net, ss, xs, ps, bs, lat, lon) ==
    [net EXCEPT
        !.streets = @ \o ss,
        !.intersections = @ \o xs,
        !.pedestrian_paths = @ \o ps,
        !.buildings = @ \o bs,
        !.center_lat = lat,
        !.center_lon = lon,
        !.projection = LocalProjection(lat, lon),
        !.viewport_grid = ViewportGrid(net.viewport_config),
        !.extended_grid = BuildGrid(net.viewport_config, net.streets \o ss,
                                    net.pedestrian_paths \o ps,
                                    net.buildings \o bs,
                                    net.intersections \o xs, lat, lon)]

\* wx.CallAfter(fn, *args) from load number id
CallAfter(queue, id, fn, args) ==
    Append(queue, [fn |-> fn, load |-> id, args |-> args])

\* MainWindow._on_address_search_complete (lines 174-176) with one address
\* selected, then MainWindow.load_map_data: on the UI thread
StartLoad(address, limit) ==
    /\ Len(worker) < limit
    /\ current_address' = address
    /\ window' = [window EXCEPT
                     !.status = "Loading map data...",
                     !.dialogs = Append(@, [shown |-> TRUE, current_step |-> 0])]
    /\ worker' = Append(worker,
           [pc |-> "init", address |-> address,
            center_lat |-> address.lat, center_lon |-> address.lon,
            network |-> NoneObject, required_radius |-> 0,
            outcome |-> [c \in {} |-> "data"],
            streets |-> <<>>, intersections |-> <<>>,
            pedestrian_paths |-> <<>>, buildings |-> <<>>,
            errors |-> <<>>, posted |-> None,
            \* history: what the window showed when the load started, and
            \* whether the worker of an earlier load was still running
            prior_network |-> current_network,
            prior_display |-> map_display,
            overlapped |-> \E j \in 1..Len(worker) :
                               worker[j].pc # "done"])
    /\ UNCHANGED <<current_network, ui_queue, map_display>>
    /\ UNCHANGED network_vars
    /\ UNCHANGED <<result, cell, cache>>

\* at most MaxLoads loads in one run
load_map_data(address) == StartLoad(address, MaxLoads)

\* _load_map_worker, lines 206-215
WorkerInit(id) ==
    /\ worker[id].pc = "init"
    /\ ui_queue' = CallAfter(ui_queue, id, "update_progress", <<0>>)
    /\ worker' = [worker EXCEPT
           ![id].network = NewStreetNetwork(DefaultViewportConfig),
           ![id].required_radius =
               calculate_required_radius(DefaultViewportConfig),
           ![id].errors = <<>>,
           ![id].pc = "streets"]
    /\ UNCHANGED <<current_network, current_address, window, map_display>>
    /\ UNCHANGED network_vars
    /\ UNCHANGED <<result, cell, cache>>

RECURSIVE FailedFetches(_, _)
\* the fetches that have failed so far in the loads k, k+1, ... of ws
FailedFetches(ws, k) ==
    IF k > Len(ws) THEN 0
    ELSE Cardinality({c \in DOMAIN ws[k].outcome : ws[k].outcome[c] # "data"})
             + FailedFetches(ws, k + 1)

\* the outcomes os of the next fetches keep the run within MaxFailedFetches
WithinFailureBound(os) ==
    FailedFetches(worker, 1) + Cardinality({k \in DOMAIN os : os[k] # "data"})
        <= MaxFailedFetches

\* what a fetch leaves in the worker's local list
Fetched(category, o) == IF o = "data" THEN ProviderData[category] ELSE <<>>

\* errors.append(category) of the except branch of the worker
Recorded(errors, category, o) ==
    IF o = "other_exception" THEN Append(errors, category) ELSE errors

\* _load_map_worker, lines 217-224: step 1, streets
WorkerFetchStreets(id, o) ==
    /\ worker[id].pc = "streets"
    /\ WithinFailureBound(<<o>>)
    /\ ui_queue' = CallAfter(ui_queue, id, "increment_progress", <<>>)
    /\ worker' = [worker EXCEPT
           ![id].outcome = [c \in {"streets"} |-> o],
           ![id].streets = Fetched("streets", o),
           ![id].errors = Recorded(@, "streets", o),
           ![id].pc = "intersections"]
    /\ UNCHANGED <<current_network, current_address, window, map_display>>
    /\ UNCHANGED network_vars
    /\ UNCHANGED <<result, cell, cache>>

\* _load_map_worker, lines 226-241: step 2, intersections and paths
WorkerFetchIntersectionsAndPaths(id, o1, o2) ==
    /\ worker[id].pc = "intersections"
    /\ WithinFailureBound(<<o1, o2>>)
    /\ ui_queue' = CallAfter(ui_queue, id, "increment_progress", <<>>)
    /\ worker' = [worker EXCEPT
           ![id].outcome = [c \in {"streets", "intersections", "paths"} |->
                               IF c = "intersections" THEN o1
                               ELSE IF c = "paths" THEN o2 ELSE @[c]],
           ![id].intersections = Fetched("intersections", o1),
           ![id].pedestrian_paths = Fetched("paths", o2),
           ![id].errors = Recorded(Recorded(@, "intersections", o1),
                                   "paths", o2),
           ![id].pc = "buildings"]
    /\ UNCHANGED <<current_network, current_address, window, map_display>>
    /\ UNCHANGED network_vars
    /\ UNCHANGED <<result, cell, cache>>

\* _load_map_worker, lines 243-251: step 3, buildings
WorkerFetchBuildings(id, o) ==
    /\ worker[id].pc = "buildings"
    /\ WithinFailureBound(<<o>>)
    /\ ui_queue' = CallAfter(ui_queue, id, "increment_progress", <<>>)
    /\ worker' = [worker EXCEPT
           ![id].outcome = [c \in {"streets", "intersections", "paths",
                                   "buildings"} |->
                               IF c = "buildings" THEN o ELSE @[c]],
           ![id].buildings = Fetched("buildings", o),
           ![id].errors = Recorded(@, "buildings", o),
           ![id].pc = "build"]
    /\ UNCHANGED <<current_network, current_address, window, map_display>>
    /\ UNCHANGED network_vars
    /\ UNCHANGED <<result, cell, cache>>

\* _load_map_worker, lines 266-281, for the network built: what the worker
\* posts to the UI thread
PostBuilt(id, built) ==
    LET lines == render_map(built.extended_grid, built.viewport_grid,
                            built.grid_width, built.grid_height)
        q1 == CallAfter(ui_queue, id, "increment_progress", <<>>)
    IN  IF "data_cache" \in StreetNetworkAttributes
        THEN /\ worker' = [worker EXCEPT
                    ![id].network = built,
                    ![id].posted = "_on_map_load_complete",
                    ![id].pc = "done"]
             /\ ui_queue' = CallAfter(q1, id, "_on_map_load_complete",
                                      <<built, lines.ret, worker[id].errors>>)
        ELSE /\ worker' = [worker EXCEPT
                    ![id].network = NoneObject,
                    ![id].posted = "_on_search_error",
                    ![id].pc = "done"]
             /\ ui_queue' = CallAfter(q1, id, "_on_search_error",
                                      <<AttributeError>>)

\* the last step of the worker installing its network itself, from the
\* worker thread, instead of queueing a call for the UI thread
WorkerBuild_installs_directly(id) ==
    /\ worker[id].pc = "build"
    /\ LET w == worker[id]
           built == AddAllAndBuild(w.network, w.streets, w.intersections,
                                   w.pedestrian_paths, w.buildings,
                                   w.center_lat, w.center_lon)
       IN  /\ worker' = [worker EXCEPT
                  ![id].network = built,
                  ![id].posted = "_on_map_load_complete",
                  ![id].pc = "done"]
           /\ current_network' = built
    /\ ui_queue' = CallAfter(ui_queue, id, "increment_progress", <<>>)
    /\ UNCHANGED <<current_address, window, map_display>>
    /\ UNCHANGED network_vars
    /\ UNCHANGED <<result, cell, cache>>

\* _load_map_worker, lines 253-281: step 4.  Inside the try the worker adds
\* the four lists, builds the grid and then evaluates network.data_cache
\* (line 268); when StreetNetwork has no such attribute that raises
\* AttributeError, the except of line 279 catches it and posts
\* _on_search_error; the network, a local of the worker, is then lost.
WorkerBuild(id) ==
    /\ worker[id].pc = "build"
    /\ PostBuilt(id, AddAllAndBuild(worker[id].network, worker[id].streets,
                                    worker[id].intersections,
                                    worker[id].pedestrian_paths,
                                    worker[id].buildings,
                                    worker[id].center_lat,
                                    worker[id].center_lon))
    /\ UNCHANGED <<current_network, current_address, window, map_display>>
    /\ UNCHANGED network_vars
    /\ UNCHANGED <<result, cell, cache>>

\* _on_search_error that reports the error but leaves the dialog open
_on_search_error_dialog_left_open(w, e) ==
    [w EXCEPT
        !.status = "Error occurred",
        !.messages = Append(@, "An error occurred: " \o e.args[1])]

\* MainWindow._on_search_error(error_message, progress_dialog), run for the
\* queued call e: the window it leaves
_on_search_error(w, e) ==
    [w EXCEPT
        !.dialogs[e.load].shown = FALSE,
        !.status = "Error occurred",
        !.messages = Append(@, "An error occurred: " \o e.args[1])]

\* the UI thread runs the oldest queued call:
\*   ProgressDialog.update_progress / increment_progress
\*   (progress_dialog.py:42-66),
\*   MainWindow._on_map_load_complete (main_window.py:283-309),
\*   MainWindow._on_search_error (main_window.py:311-317)
RunCallAfter ==
    /\ Len(ui_queue) > 0
    /\ ui_queue' = Tail(ui_queue)
    /\ LET e == Head(ui_queue)
       IN  CASE e.fn = "update_progress" ->
                  /\ window' = [window EXCEPT
                         !.dialogs[e.load].current_step = e.args[1]]
                  /\ UNCHANGED <<current_network, map_display>>
             [] e.fn = "increment_progress" ->
                  /\ window' = [window EXCEPT
                         !.dialogs[e.load].current_step = @ + 1]
                  /\ UNCHANGED <<current_network, map_display>>
             [] e.fn = "_on_map_load_complete" ->
                  /\ current_network' = e.args[1]
                  /\ map_display' =
                         set_cursor_position(
                             set_map_data(map_display, e.args[1], e.args[2]),
                             e.args[1].grid_width \div 2,
                             e.args[1].grid_height \div 2)
                  /\ window' = [window EXCEPT
                         !.dialogs[e.load].shown = FALSE,
                         !.status = IF current_address # NoneObject
                                    THEN "Loaded map for: "
                                             \o current_address.display_name
                                             \o (IF e.args[3] # <<>>
                                                 THEN " (partial data)"
                                                 ELSE "")
                                    ELSE "Map loaded successfully",
                         !.messages = Append(@, "Map Loaded")]
             [] e.fn = "_on_search_error" ->
                  /\ window' = _on_search_error(window, e)
                  /\ UNCHANGED <<current_network, map_display>>
    /\ UNCHANGED <<current_address, worker>>
    /\ UNCHANGED network_vars
    /\ UNCHANGED <<result, cell, cache>>

InitLoad ==
    /\ NetworkInit(DefaultViewportConfig)
    /\ result = NoResult
    /\ cell = EmptyCell
    /\ cache = NewMapDataCache
    /\ WindowInit

NextLoad ==
    \/ \E a \in AddressCatalogue : load_map_data(a)
    \/ \E id \in 1..Len(worker) : WorkerInit(id)
    \/ \E id \in 1..Len(worker), o \in FetchOutcomes :
           WorkerFetchStreets(id, o)
    \/ \E id \in 1..Len(worker), o1 \in FetchOutcomes, o2 \in FetchOutcomes :
           WorkerFetchIntersectionsAndPaths(id, o1, o2)
    \/ \E id \in 1..Len(worker), o \in FetchOutcomes :
           WorkerFetchBuildings(id, o)
    \/ \E id \in 1..Len(worker) : WorkerBuild(id)
    \/ RunCallAfter

SpecLoad == InitLoad /\ [][NextLoad]_vars

(***************************************************************************)
(* map_cache.py: MapDataCache                                              *)
(***************************************************************************)
\* MapDataCache.has_data
has_data(c) ==
    c.streets # <<>> \/ c.intersections # <<>> \/ c.pedestrian_paths # <<>>
        \/ c.buildings # <<>>

\* the square of the distance needs_refetch computes, in 1/Fix metre:
\*   lat_diff = (new_center_lat - center_lat) * 111320
\*   lon_diff = (new_center_lon - center_lon) * 111320 * cos(center_lat)
RefetchDistanceSquared(c, lat, lon) ==
    LET lat_diff == (lat - c.center_lat) * Fix
        lon_diff == ((lon - c.center_lon) * Fix * CosTenths(c.center_lat))
                        \div CosFix
    IN  lat_diff * lat_diff + lon_diff * lon_diff

\* needs_refetch with the whole fetch radius as its threshold
needs_refetch_full_radius(c, lat, lon) ==
    IF c.streets = <<>> /\ c.buildings = <<>>
    THEN TRUE
    ELSE RefetchDistanceSquared(c, lat, lon)
             > (c.fetch_radius * Fix) * (c.fetch_radius * Fix)

\* MapDataCache.needs_refetch: distance > fetch_radius * 0.5, compared by
\* the squares, with 2 * distance against fetch_radius
needs_refetch(c, lat, lon) ==
    IF c.streets = <<>> /\ c.buildings = <<>>
    THEN TRUE
    ELSE 4 * RefetchDistanceSquared(c, lat, lon)
             > (c.fetch_radius * Fix) * (c.fetch_radius * Fix)

\* the viewport configurations a cache is used with: the default, a wide
\* and flat one, one with a margin factor of 2.0, one with a margin of 1.0
CacheConfigs ==
    {DefaultViewportConfig,
     ViewportConfig(40, 10, 25, DefaultMarginFactor),
     ViewportConfig(40, 40, 25, 20),
     ViewportConfig(20, 20, 10, 10)}

\* cached centers: on the equator and at 60 degrees north
CacheCenters == {<<0, 0>>, <<Lat60, 0>>}

\* the fetch radius of the scenario of needs_refetch
ScenarioFetchRadius == 500

\* the new centers asked about, as offsets (north, east) from the cached
\* center in units of 1/111320 degree
CacheOffsets ==
    {<<0, 0>>, <<100, 0>>, <<250, 0>>, <<300, 0>>, <<-200, 0>>, <<600, 0>>,
     <<0, 200>>, <<0, 500>>, <<0, -600>>, <<150, 200>>, <<0, 1200>>}

\* the lists a fetch can have produced: empty, or what the provider holds
EmptyOr(list) == {<<>>, list}

\* MapDataCache.set_data
set_data(ss, xs, ps, bs, lat, lon, radius) ==
    /\ cache' = [streets |-> ss, intersections |-> xs,
                 pedestrian_paths |-> ps, buildings |-> bs,
                 center_lat |-> lat, center_lon |-> lon,
                 fetch_radius |-> radius]
    /\ result' = Returned("set_data", <<lat, lon, radius>>, None)
    /\ UNCHANGED network_vars
    /\ UNCHANGED cell
    /\ UNCHANGED window_vars

Call_needs_refetch(lat, lon) ==
    /\ result' = Returned("needs_refetch", <<lat, lon>>,
                          needs_refetch(cache, lat, lon))
    /\ UNCHANGED network_vars
    /\ UNCHANGED <<cell, cache>>
    /\ UNCHANGED window_vars

Call_has_data ==
    /\ result' = Returned("has_data", <<>>, has_data(cache))
    /\ UNCHANGED network_vars
    /\ UNCHANGED <<cell, cache>>
    /\ UNCHANGED window_vars

InitCache ==
    /\ \E config \in CacheConfigs : NetworkInit(config)
    /\ result = NoResult
    /\ cell = EmptyCell
    /\ cache = NewMapDataCache
    /\ WindowInit

NextCache ==
    \/ \E ss \in EmptyOr(ProviderData.streets),
          xs \in EmptyOr(ProviderData.intersections),
          ps \in EmptyOr(ProviderData.paths),
          bs \in EmptyOr(ProviderData.buildings),
          c \in CacheCenters,
          radius \in {ScenarioFetchRadius,
                      calculate_required_radius(viewport_config)} :
           set_data(ss, xs, ps, bs, c[1], c[2], radius)
    \/ \E d \in CacheOffsets :
           Call_needs_refetch(cache.center_lat + d[1], cache.center_lon + d[2])
    \/ Call_has_data

SpecCache == InitCache /\ [][NextCache]_vars

(***************************************************************************)
(* street_network.py: two networks that hold the same features in a        *)
(* different order, and features that meet in one cell                     *)
(***************************************************************************)
\* streets that meet in the cell of the center: two named "Main St" (one
\* west-east, one north-south) and one named "main st"
OrderStreets ==
    {Street("Main St", <<(<<Lat60, -30>>), (<<Lat60, 30>>)>>),
     Street("Main St", <<(<<Lat60 + 15, 0>>), (<<Lat60, 0>>),
                         (<<Lat60 - 15, 0>>)>>),
     Street("main st", <<(<<Lat60 + 15, 30>>), (<<Lat60 - 15, -30>>)>>)}

OrderPaths ==
    {PedestrianPath("River Walk", <<(<<Lat60 + 15, 0>>), (<<Lat60 - 15, 0>>)>>),
     PedestrianPath("Unnamed Path", <<(<<Lat60, -30>>), (<<Lat60, 0>>),
                                      (<<Lat60, 30>>)>>)}

\* two buildings of one name in one cell, with and without an address
OrderBuildings ==
    {Building("Cafe", Lat60, 0, "12 Main St"),
     Building("Cafe", Lat60 - 1, 2, None)}

OrderIntersections == {Intersection(Lat60, 0), Intersection(Lat60 + 15, 0)}

\* the orders in which the elements of seq can be listed
Reorderings(seq) ==
    LET n == Len(seq)
        bijections == {f \in [1..n -> 1..n] :
                          \A i \in 1..n, j \in 1..n : f[i] = f[j] => i = j}
    IN  {[i \in 1..n |-> seq[f[i]]] : f \in bijections}

\* a second StreetNetwork of the same configuration, given the same
\* features in the order ss, xs, ps, bs, and built at the same center
BuildReordered(ss, xs, ps, bs) ==
    /\ viewport_grid # NoneObject
    /\ result' = Returned("build_grid_reordered", <<ss, xs, ps, bs>>,
                          AddAllAndBuild(NewStreetNetwork(viewport_config),
                                         ss, xs, ps, bs,
                                         center_lat, center_lon))
    /\ UNCHANGED network_vars
    /\ UNCHANGED <<cell, cache>>
    /\ UNCHANGED window_vars

InitOrder ==
    /\ \E config \in EngineConfigs : NetworkInit(config)
    /\ result = NoResult
    /\ cell = EmptyCell
    /\ cache = NewMapDataCache
    /\ WindowInit

NextOrder ==
    \/ \E st \in OrderStreets : add_streets(<<st>>)
    \/ \E x \in OrderIntersections : add_intersections(<<x>>)
    \/ \E pa \in OrderPaths : add_pedestrian_paths(<<pa>>)
    \/ \E b \in OrderBuildings : add_buildings(<<b>>)
    \/ build_grid(Lat60, 0)
    \/ \E ss \in Reorderings(streets), xs \in Reorderings(intersections),
          ps \in Reorderings(pedestrian_paths), bs \in Reorderings(buildings) :
           BuildReordered(ss, xs, ps, bs)

SpecOrder == InitOrder /\ [][NextOrder]_vars

(***************************************************************************)
(* ascii_renderer.py on networks with few or no features, with the default *)
(* viewport and with a viewport of zero width or zero height               *)
(***************************************************************************)
RenderConfigs ==
    {DefaultViewportConfig,
     ViewportConfig(0, DefaultHeight, DefaultCellSizeMeters,
                    DefaultMarginFactor),
     ViewportConfig(DefaultWidth, 0, DefaultCellSizeMeters,
                    DefaultMarginFactor)}

RenderStreets ==
    {Street("Main St", <<(<<Lat60, -100>>), (<<Lat60, 100>>)>>),
     Street("Unnamed Street", <<(<<Lat60 + 50, 0>>), (<<Lat60 - 50, 0>>)>>)}

\* a call of GridFormatter.get_map_summary on the network
Call_get_map_summary ==
    /\ result' = Returned("get_map_summary", <<>>,
                          get_map_summary(streets, pedestrian_paths,
                                          buildings, grid_width, grid_height))
    /\ UNCHANGED network_vars
    /\ UNCHANGED <<cell, cache>>
    /\ UNCHANGED window_vars

InitRender ==
    /\ \E config \in RenderConfigs : NetworkInit(config)
    /\ result = NoResult
    /\ cell = EmptyCell
    /\ cache = NewMapDataCache
    /\ WindowInit

NextRender ==
    \/ \E st \in RenderStreets : add_streets(<<st>>)
    \/ add_intersections(ProviderData.intersections)
    \/ add_pedestrian_paths(ProviderData.paths)
    \/ add_buildings(ProviderData.buildings)
    \/ build_grid(Lat60, 0)
    \/ Call_render_map
    \/ Call_get_map_summary

SpecRender == InitRender /\ [][NextRender]_vars

(***************************************************************************)
(* viewport.py: ViewportGrid.meters_to_extended_grid on the grid of a      *)
(* built network, for points inside, on and beyond its edges               *)
(***************************************************************************)
\* x in 1/Fix metre: the west edge of the 3 x 2 viewport of 10 m cells is
\* at -300, the east edge at 300
MeterInputsX ==
    {-450, -400, -350, -301, -300, -250, -5, 0, 5, 250, 299, 300, 350}

\* y in 1/Fix metre: the north edge is at 200, the south edge at -200
MeterInputsY == {-250, -200, -150, -5, 0, 5, 150, 199, 200, 201, 250, 300, 350}

\* a call of viewport_grid.meters_to_extended_grid
Call_meters_to_extended_grid(x, y) ==
    /\ viewport_grid # NoneObject
    /\ result' = Returned("meters_to_extended_grid", <<x, y>>,
                          meters_to_extended_grid(viewport_grid,
                                                  viewport_config, x, y))
    /\ UNCHANGED network_vars
    /\ UNCHANGED <<cell, cache>>
    /\ UNCHANGED window_vars

InitViewport ==
    /\ \E config \in EngineConfigs : NetworkInit(config)
    /\ result = NoResult
    /\ cell = EmptyCell
    /\ cache = NewMapDataCache
    /\ WindowInit

NextViewport ==
    \/ \E c \in Centers : build_grid(c[1], c[2])
    \/ \E x \in MeterInputsX, y \in MeterInputsY :
           Call_meters_to_extended_grid(x, y)

SpecViewport == InitViewport /\ [][NextViewport]_vars

(***************************************************************************)
(* viewport.py: ViewportCalculator.calculate_required_radius through       *)
(* StreetNetwork.get_required_radius, on networks constructed with         *)
(* viewports of several widths, heights, cell sizes and margin factors     *)
(***************************************************************************)
RadiusWidths == {1, 2, 3, 40}

RadiusHeights == {1, 2, 4, 40}

\* cell_size_meters, in metres
RadiusCellSizes == {10, 25, 31}

\* margin_factor, in tenths: 1.0, 1.2 and 1.5
RadiusMargins == {10, DefaultMarginFactor, 15}

RadiusConfigs ==
    {ViewportConfig(w, h, c, m) :
        w \in RadiusWidths, h \in RadiusHeights,
        c \in RadiusCellSizes, m \in RadiusMargins}

InitRadius ==
    /\ \E config \in RadiusConfigs : NetworkInit(config)
    /\ result = NoResult
    /\ cell = EmptyCell
    /\ cache = NewMapDataCache
    /\ WindowInit

NextRadius == Call_get_required_radius

SpecRadius == InitRadius /\ [][NextRadius]_vars

(***************************************************************************)
(* coordinate_system.py: LocalProjection in float arithmetic, for centers  *)
(* and points given in degrees                                             *)
(***************************************************************************)
\* the latitudes of the centers: 0, 45 and 60 degrees
CenterLatitudes == {Float(0, 0), Float(45, 0), Float(60, 0)}

\* math.cos(math.radians(center_lat)) rounded to a float, for the latitudes
\* of the centers: 1, 0.70710678 and 0.5
CosRadians(lat) ==
    IF lat = Float(0, 0) THEN Float(1, 0)
    ELSE IF lat = Float(45, 0) THEN Float(11585, -14)
    ELSE Float(1, -1)

\* LocalProjection.__init__ with float factors
FloatLocalProjection(lat, lon) ==
    [center_lat |-> lat,
     center_lon |-> lon,
     lat_to_meters |-> Float(LatToMeters, 0),
     lon_to_meters |-> FloatMul(Float(LatToMeters, 0), CosRadians(lat))]

\* LocalProjection.project_to_meters on floats
float_project_to_meters(p, lat, lon) ==
    <<FloatMul(FloatSub(lon, p.center_lon), p.lon_to_meters),
      FloatMul(FloatSub(lat, p.center_lat), p.lat_to_meters)>>

\* meters_to_latlon returning its arguments' sum with the center, without
\* dividing by the factors
meters_to_latlon_undivided(p, x, y) ==
    <<FloatAdd(p.center_lat, y), FloatAdd(p.center_lon, x)>>

\* LocalProjection.meters_to_latlon
meters_to_latlon(p, x, y) ==
    <<FloatAdd(p.center_lat, FloatDiv(y, p.lat_to_meters)),
      FloatAdd(p.center_lon, FloatDiv(x, p.lon_to_meters))>>

\* the longitudes of the centers: 0, 141 * 2^-14 = 0.0086 and -73.5 degrees
CenterLongitudes == {Float(0, 0), Float(141, -14), Float(-147, -1)}

\* offsets of a point from the center, in degrees: 0, 2^-7 = 0.0078,
\* -357 * 2^-15 = -0.0109, -7603 * 2^-21 = -0.0036 and 0.0100
DegreeOffsets ==
    {Float(0, 0), Float(1, -7), Float(-357, -15), Float(-7603, -21),
     Float(10487, -20)}

\* a call of projection.project_to_meters
Call_project_to_meters(lat, lon) ==
    /\ result' = Returned("project_to_meters", <<lat, lon>>,
                          float_project_to_meters(projection, lat, lon))
    /\ UNCHANGED network_vars
    /\ UNCHANGED <<cell, cache>>
    /\ UNCHANGED window_vars

\* x, y = projection.project_to_meters(lat, lon);
\* projection.meters_to_latlon(x, y)
Call_meters_to_latlon_of_projected(lat, lon) ==
    /\ LET xy == float_project_to_meters(projection, lat, lon)
       IN  result' = Returned("meters_to_latlon", <<lat, lon>>,
                              meters_to_latlon(projection, xy[1], xy[2]))
    /\ UNCHANGED network_vars
    /\ UNCHANGED <<cell, cache>>
    /\ UNCHANGED window_vars

InitProjection ==
    /\ \E lat \in CenterLatitudes, lon \in CenterLongitudes :
           projection = FloatLocalProjection(lat, lon)
    /\ streets = <<>>
    /\ intersections = <<>>
    /\ pedestrian_paths = <<>>
    /\ buildings = <<>>
    /\ viewport_grid = NoneObject
    /\ viewport_config = DefaultViewportConfig
    /\ extended_grid = [pos \in {} |-> EmptyCell]
    /\ grid_width = DefaultWidth
    /\ grid_height = DefaultHeight
    /\ center_lat = 0
    /\ center_lon = 0
    /\ result = NoResult
    /\ cell = EmptyCell
    /\ cache = NewMapDataCache
    /\ WindowInit

NextProjection ==
    \/ \E dlat \in DegreeOffsets, dlon \in DegreeOffsets :
           Call_project_to_meters(FloatAdd(projection.center_lat, dlat),
                                  FloatAdd(projection.center_lon, dlon))
    \/ \E dlat \in DegreeOffsets, dlon \in DegreeOffsets :
           Call_meters_to_latlon_of_projected(
               FloatAdd(projection.center_lat, dlat),
               FloatAdd(projection.center_lon, dlon))

SpecProjection == InitProjection /\ [][NextProjection]_vars

(***************************************************************************)
(* street_network.py: StreetNetwork._line_points on endpoints inside and   *)
(* outside the grid, short and long lines                                  *)
(***************************************************************************)
LineX1 == {-3, 0, 3}

LineY1 == {-1, 0}

LineX2 == {-2, 0, 1, 4, 31}

LineY2 == {-2, 0, 2, 5, 47}

\* a call of self._line_points
Call__line_points(x1, y1, x2, y2) ==
    /\ result' = Returned("_line_points", <<x1, y1, x2, y2>>,
                          _line_points(x1, y1, x2, y2))
    /\ UNCHANGED network_vars
    /\ UNCHANGED <<cell, cache>>
    /\ UNCHANGED window_vars

InitLine ==
    /\ \E config \in EngineConfigs : NetworkInit(config)
    /\ result = NoResult
    /\ cell = EmptyCell
    /\ cache = NewMapDataCache
    /\ WindowInit

NextLine ==
    \E x1 \in LineX1, y1 \in LineY1, x2 \in LineX2, y2 \in LineY2 :
        Call__line_points(x1, y1, x2, y2)

SpecLine == InitLine /\ [][NextLine]_vars

(***************************************************************************)
(* main_window.py: a second address chosen, and its load started, while    *)
(* the worker of the first load is still running; every fetch succeeds     *)
(***************************************************************************)
\* bound of the model: the loads started after the first one
MaxReloads == 1

ReloadAddresses ==
    <<[display_name |-> "1 Main St", lat |-> Lat60, lon |-> 0,
       place_id |-> "1"],
      [display_name |-> "2 Oak Ave", lat |-> Lat60 + 50, lon |-> 100,
       place_id |-> "2"]>>

\* load number Len(worker) + 1 is for the first address, the later ones for
\* the second
NextAddress ==
    IF Len(worker) = 0 THEN ReloadAddresses[1] ELSE ReloadAddresses[2]

InitReload == InitLoad

NextReload ==
    \/ StartLoad(NextAddress, 1 + MaxReloads)
    \/ \E id \in 1..Len(worker) : WorkerInit(id)
    \/ \E id \in 1..Len(worker) : WorkerFetchStreets(id, "data")
    \/ \E id \in 1..Len(worker) :
           WorkerFetchIntersectionsAndPaths(id, "data", "data")
    \/ \E id \in 1..Len(worker) : WorkerFetchBuildings(id, "data")
    \/ \E id \in 1..Len(worker) : WorkerBuild(id)
    \/ RunCallAfter

SpecReload == InitReload /\ [][NextReload]_vars

(***************************************************************************)
(* The map display on its own: maps are set, the timer ticks, the cursor   *)
(* is moved by keys and by the mouse, zoom and recenter are requested      *)
(***************************************************************************)
\* a 4 x 3 viewport of 10 m cells
DisplayViewportConfig == ViewportConfig(4, 3, 10, DefaultMarginFactor)

\* the features of the displayed maps, around 60 degrees north
DisplayData ==
    [streets |-> <<Street("Main St", <<(<<Lat60, -30>>), (<<Lat60, 30>>)>>),
                   Street("Oak Ave", <<(<<Lat60 + 15, 10>>), (<<Lat60 - 5, 10>>),
                                       (<<Lat60 - 5, 90>>)>>)>>,
     intersections |-> <<Intersection(Lat60, 10)>>,
     paths |-> <<PedestrianPath("Unnamed Path",
                                <<(<<Lat60 + 5, -10>>), (<<Lat60 + 5, 10>>)>>),
                 PedestrianPath("River Walk",
                                <<(<<Lat60 - 15, -50>>), (<<Lat60 + 5, -10>>)>>)>>,
     buildings |-> <<Building("Cafe", Lat60, 10, "12 Main St"),
                     Building("Unnamed Building", Lat60 + 5, 10, None)>>]

\* the networks a load hands to the display (main_window.py:261-265, 286):
\* built, with every feature, with the streets only, and with no feature
DisplayNetworks ==
    {AddAllAndBuild(NewStreetNetwork(DisplayViewportConfig),
                    DisplayData.streets, DisplayData.intersections,
                    DisplayData.paths, DisplayData.buildings, Lat60, 0),
     AddAllAndBuild(NewStreetNetwork(ViewportConfig(3, 2, 10, DefaultMarginFactor)),
                    DisplayData.streets, <<>>, <<>>, <<>>, Lat60, 0),
     AddAllAndBuild(NewStreetNetwork(ViewportConfig(3, 2, 10, DefaultMarginFactor)),
                    <<>>, <<>>, <<>>, <<>>, Lat60, 0)}

\* renderer.render_map(network), the lines the display is given
\* (main_window.py:271, 286)
DisplayLines(network) ==
    render_map(network.extended_grid, network.viewport_grid,
               network.grid_width, network.grid_height).ret

DisplayUnchanged ==
    /\ UNCHANGED network_vars
    /\ UNCHANGED <<cell, cache>>
    /\ UNCHANGED <<current_network, current_address, worker, ui_queue, window>>

\* a call of set_map_data with a built network and its rendered lines
Call_set_map_data(network) ==
    /\ map_display' = set_map_data(map_display, network, DisplayLines(network))
    /\ result' = Returned("set_map_data", <<>>, None)
    /\ DisplayUnchanged

\* a call of set_cursor_position
Call_set_cursor_position(grid_x, grid_y) ==
    /\ map_display' = set_cursor_position(map_display, grid_x, grid_y)
    /\ result' = Returned("set_cursor_position", <<grid_x, grid_y>>, None)
    /\ DisplayUnchanged

\* the 50 ms timer fires
CursorPollTimer ==
    /\ map_display' = on_cursor_poll_timer(map_display)
    /\ result' = Returned("on_cursor_poll_timer", <<>>, None)
    /\ DisplayUnchanged

\* a key is pressed in the control
KeyDown(key_code) ==
    /\ LET r == on_key_down(map_display, key_code)
       IN  /\ map_display' = r.display
           /\ result' = [op |-> "on_key_down", args |-> <<key_code>>,
                         raised |-> r.raised, ret |-> None]
    /\ DisplayUnchanged

\* a mouse click in the control puts the insertion point at any position
\* of its text
MouseClick(pos) ==
    /\ pos <= Len(map_display.value)
    /\ map_display' = SetInsertionPoint(map_display, pos)
    /\ result' = Returned("click", <<pos>>, None)
    /\ DisplayUnchanged

InitDisplay ==
    /\ NetworkInit(DefaultViewportConfig)
    /\ result = NoResult
    /\ cell = EmptyCell
    /\ cache = NewMapDataCache
    /\ WindowInit

NextDisplay ==
    \/ \E network \in DisplayNetworks : Call_set_map_data(network)
    \/ /\ map_display.network # NoneObject
       /\ Call_set_cursor_position(map_display.network.grid_width \div 2,
                                   map_display.network.grid_height \div 2)
    \/ CursorPollTimer
    \/ \E key_code \in DisplayKeys : KeyDown(key_code)
    \/ \E pos \in 0..Len(map_display.value) : MouseClick(pos)

SpecDisplay == InitDisplay /\ [][NextDisplay]_vars

(***************************************************************************)
(* Properties                                                              *)
(***************************************************************************)
\* C1: get_priority_character depends on the four flags alone and follows the
\* strict precedence intersection '+', street '.', pedestrian path '=',
\* building '#', empty ' '; a cell with is_intersection yields '+' whatever
\* its other flags are.
C1_PriorityPrecedence ==
    result.op = "get_priority_character" =>
        /\ result.raised = NoException
        /\ cell.is_intersection => result.ret = "+"
        /\ (~cell.is_intersection /\ cell.has_street) => result.ret = "."
        /\ (~cell.is_intersection /\ ~cell.has_street
               /\ cell.has_pedestrian_path) => result.ret = "="
        /\ (~cell.is_intersection /\ ~cell.has_street
               /\ ~cell.has_pedestrian_path /\ cell.has_building)
              => result.ret = "#"
        /\ (~cell.is_intersection /\ ~cell.has_street
               /\ ~cell.has_pedestrian_path /\ ~cell.has_building)
              => result.ret = " "

\* C1 witness: the character of a cell with all four flags set was asked for
C1_Witness ==
    /\ result.op = "get_priority_character"
    /\ cell.is_intersection /\ cell.has_street
    /\ cell.has_pedestrian_path /\ cell.has_building
    /\ result.ret = "+"

\* the cells of the extended grid whose street flag is set
StreetCells == {pos \in DOMAIN extended_grid : extended_grid[pos].has_street}

\* build_grid has just run on a network whose only feature is a street of
\* one vertex that projects inside the extended grid
OnlyOneVertexStreetBuilt ==
    /\ result.op = "build_grid"
    /\ Len(streets) = 1
    /\ Len(streets[1].coordinates) = 1
    /\ Len(pedestrian_paths) = 0
    /\ Len(buildings) = 0
    /\ Len(intersections) = 0
    /\ LET g == VertexCell(projection, viewport_grid, viewport_config,
                           streets[1].coordinates[1])
       IN  is_valid_extended_position(viewport_grid, g[1], g[2])

\* C2: after build_grid on a network whose only feature is a one-vertex
\* street inside the extended grid, exactly one cell has has_street set.
C2_OneVertexStreetSetsOneCell ==
    OnlyOneVertexStreetBuilt => Cardinality(StreetCells) = 1

\* the visible row through y = 0 and the visible columns of the two
\* projected endpoints of the first street
RowThroughOrigin ==
    meters_to_extended_grid(viewport_grid, viewport_config, 0, 0)[2]
        - viewport_grid.viewport_offset_y

EndpointColumn(k) ==
    VertexCell(projection, viewport_grid, viewport_config,
               streets[1].coordinates[k])[1]
        - viewport_grid.viewport_offset_x

\* the positions of a line that hold '.' are consecutive
OneRunOfDots(line) ==
    \A i, j \in 1..Len(line) :
        (i < j /\ line[i] = "." /\ line[j] = ".")
            => \A k \in i..j : line[k] = "."

\* the visible cell (x, y) shows '.'
ShowsStreet(x, y) ==
    LET info == get_cell_info(extended_grid, viewport_grid,
                              grid_width, grid_height, x, y)
    IN  info.ret # NoneObject /\ get_priority_character(info.ret) = "."

\* C3: default viewport, one street "Main St" from 50 m west to 50 m east of
\* the center: after build_grid the rendered row through y = 0 holds one
\* contiguous run of '.' covering every cell between the two projected
\* endpoints, and get_cell_details at every cell of the run is exactly
\* "Street: Main St".
C3_MainStreetRun ==
    (viewport_grid # NoneObject /\ viewport_config = DefaultViewportConfig) =>
        /\ result.op = "render_map" =>
              /\ result.raised = NoException
              /\ Len(result.ret) >= RowThroughOrigin + 1
              /\ LET line == result.ret[RowThroughOrigin + 1]
                 IN  /\ Len(line) >= Max(EndpointColumn(1), EndpointColumn(2)) + 1
                     /\ \A x \in Min(EndpointColumn(1), EndpointColumn(2))
                                 ..Max(EndpointColumn(1), EndpointColumn(2)) :
                            line[x + 1] = "."
                     /\ OneRunOfDots(line)
        /\ (/\ result.op = "get_cell_details"
            /\ result.args[2] = RowThroughOrigin
            /\ ShowsStreet(result.args[1], result.args[2]))
              => (result.raised = NoException /\ result.ret = "Street: Main St")
        /\ \A x \in Min(EndpointColumn(1), EndpointColumn(2))
                    ..Max(EndpointColumn(1), EndpointColumn(2)) :
               ShowsStreet(x, RowThroughOrigin)

\* C3 witness: the details of a cell of the run, two cells east of the
\* middle of the row, were read and are "Street: Main St"
C3_Witness ==
    /\ viewport_grid # NoneObject
    /\ viewport_config = DefaultViewportConfig
    /\ result.op = "get_cell_details"
    /\ result.args = <<grid_width \div 2 + 1, RowThroughOrigin>>
    /\ EndpointColumn(2) - EndpointColumn(1) >= 3
    /\ result.ret = "Street: Main St"

\* the categories of a load whose fetch raised into the worker
FailedCategories(w) ==
    {c \in DOMAIN w.outcome : w.outcome[c] = "other_exception"}

\* the names of the failed categories, in the order the worker fetches them
RECURSIVE FailedInOrder(_, _)
FailedInOrder(w, k) ==
    IF k > Len(Categories) THEN <<>>
    ELSE (IF Categories[k] \in FailedCategories(w)
          THEN <<Categories[k]>> ELSE <<>>) \o FailedInOrder(w, k + 1)

\* C4: in a load in which some of the four fetches fail, the worker puts an
\* empty list in place of exactly the failed categories, records exactly
\* those in its error list, builds the grid from the categories that
\* succeeded and hands the network to _on_map_load_complete, never to
\* _on_search_error.
C4_FetchFailureIsNotFatal ==
    \A id \in 1..Len(worker) :
        LET w == worker[id]
        IN  (w.pc = "done" /\ FailedCategories(w) # {}) =>
                /\ w.errors = FailedInOrder(w, 1)
                /\ w.streets = Fetched("streets", w.outcome["streets"])
                /\ w.intersections =
                       Fetched("intersections", w.outcome["intersections"])
                /\ w.pedestrian_paths = Fetched("paths", w.outcome["paths"])
                /\ w.buildings = Fetched("buildings", w.outcome["buildings"])
                /\ w.posted = "_on_map_load_complete"
                /\ w.network.extended_grid =
                       BuildGrid(DefaultViewportConfig, w.streets,
                                 w.pedestrian_paths, w.buildings,
                                 w.intersections, w.center_lat, w.center_lon)

\* a step in which the network method op is called: the call leaves its
\* outcome in result
Calls(op) == result' # result /\ result'.op = op

\* C5: a zoom_at_cursor call whose resulting cell size is out of bounds (a
\* factor of 0 gives a cell size of 0, below any minimum) returns false
\* without raising, and cell_size_meters, the center, the feature lists and
\* every cell of the extended grid are after the call what they were before.
C5_ZoomOutOfBoundsReturnsFalse ==
    [][(Calls("zoom_at_cursor") /\ viewport_grid # NoneObject
            /\ TruncDiv(viewport_config.cell_size_meters * result'.args[3],
                        100) = 0)
        => /\ result'.raised = NoException
           /\ result'.ret = FALSE
           /\ UNCHANGED network_vars]_vars

\* C6: on a loaded network every zoom_at_cursor call with factor 0.8 returns
\* true or false without raising, and grid_width and grid_height are after
\* the call the width and height the network was constructed with.
C6_ZoomInKeepsGridDimensions ==
    [][(Calls("zoom_at_cursor") /\ viewport_grid # NoneObject
            /\ result'.args[3] = ZoomInFactor)
        => /\ result'.raised = NoException
           /\ result'.ret \in BOOLEAN
           /\ grid_width' = grid_width
           /\ grid_height' = grid_height
           /\ viewport_config'.width = viewport_config.width
           /\ viewport_config'.height = viewport_config.height]_vars

\* C7: rebuild_grid(new_center) on a loaded network returns without raising,
\* leaves the four feature lists unchanged, sets the center to new_center
\* and leaves the extended grid equal to what build_grid(new_center)
\* produces from the held lists.
C7_RecenterRebuildsFromHeldLists ==
    [][(Calls("rebuild_grid") /\ viewport_grid # NoneObject)
        => /\ result'.raised = NoException
           /\ UNCHANGED <<streets, intersections, pedestrian_paths, buildings>>
           /\ center_lat' = result'.args[1]
           /\ center_lon' = result'.args[2]
           /\ extended_grid' =
                  BuildGrid(viewport_config, streets, pedestrian_paths,
                            buildings, intersections,
                            result'.args[1], result'.args[2])]_vars

\* the square of the planar distance, in 1/Fix metre, between the cached
\* center and a new center, in the local projection around the cached center
PlanarDistanceSquared(c, lat, lon) ==
    LET xy == project_to_meters(LocalProjection(c.center_lat, c.center_lon),
                                lat, lon)
    IN  xy[1] * xy[1] + xy[2] * xy[2]

\* twice the distance exceeds the fetch radius: distance > fetch_radius * 0.5
BeyondHalfRadius(c, lat, lon) ==
    4 * PlanarDistanceSquared(c, lat, lon)
        > (c.fetch_radius * Fix) * (c.fetch_radius * Fix)

\* C8: for a cache holding data (has_data() is true), needs_refetch returns
\* true if and only if the planar distance between the cached center and
\* the new center is strictly greater than fetch_radius * 0.5.
C8_RefetchIffBeyondHalfRadius ==
    (result.op = "needs_refetch" /\ has_data(cache)) =>
        (result.ret <=> BeyondHalfRadius(cache, result.args[1], result.args[2]))

\* C9: for every cache in which at least one of the four feature lists is
\* non-empty, needs_refetch at the cached center itself returns false.
C9_RefetchUnconditionalOnlyWhenEmpty ==
    (result.op = "needs_refetch" /\ has_data(cache)
        /\ result.args = <<cache.center_lat, cache.center_lon>>) =>
        result.ret = FALSE

\* the cache was filled with the radius calculate_required_radius() gives
\* for the viewport configuration, whose margin factor is at least 1
FetchedWithRequiredRadius ==
    /\ viewport_config.margin_factor >= MarginFix
    /\ cache.fetch_radius = calculate_required_radius(viewport_config)

\* in each axis, |offset of the new center| + half the visible extent
\* <= half the extended extent (all in 1/Fix metre, doubled)
ViewportInsideExtendedGrid(config, c, lat, lon) ==
    LET xy == project_to_meters(LocalProjection(c.center_lat, c.center_lon),
                                lat, lon)
        vg == ViewportGrid(config)
        m == config.cell_size_meters * Fix
    IN  /\ 2 * Abs(xy[1]) + vg.visible_width * m <= vg.extended_width * m
        /\ 2 * Abs(xy[2]) + vg.visible_height * m <= vg.extended_height * m

\* C10 as stated: for every viewport configuration with fetch_radius =
\* calculate_required_radius(), whenever needs_refetch(new_center) returns
\* false the visible viewport centred on new_center lies inside the area of
\* the extended grid built around the cached center.
C10_Original ==
    (result.op = "needs_refetch" /\ FetchedWithRequiredRadius
        /\ result.ret = FALSE) =>
        ViewportInsideExtendedGrid(viewport_config, cache,
                                   result.args[1], result.args[2])

\* the required radius is at most the shorter side of the visible viewport,
\* in metres
RadiusWithinShorterSide(config) ==
    calculate_required_radius(config)
        <= Min(config.width, config.height) * config.cell_size_meters

\* C10 amended: for every viewport configuration whose required radius does
\* not exceed min(width, height) * cell_size_meters (the default 40 x 40
\* viewport of 25 m cells with margin 1.2 is one), with fetch_radius =
\* calculate_required_radius(), whenever needs_refetch(new_center) returns
\* false the visible viewport centred on new_center lies inside the area of
\* the extended grid built around the cached center.
C10_ViewportStaysInsideExtendedGrid ==
    (result.op = "needs_refetch" /\ FetchedWithRequiredRadius
        /\ RadiusWithinShorterSide(viewport_config)
        /\ result.ret = FALSE) =>
        ViewportInsideExtendedGrid(viewport_config, cache,
                                   result.args[1], result.args[2])

\* needs_refetch returned false for a new center away from the cached one,
\* on a cache filled with the required radius of such a configuration
C10_Witness ==
    /\ result.op = "needs_refetch"
    /\ FetchedWithRequiredRadius
    /\ RadiusWithinShorterSide(viewport_config)
    /\ result.ret = FALSE
    /\ result.args # <<cache.center_lat, cache.center_lon>>
    /\ PlanarDistanceSquared(cache, result.args[1], result.args[2]) > 0

\* the load id raised in its grid-construction step and the UI thread has
\* run every call the load queued
FailureHandled(id) ==
    /\ worker[id].pc = "done"
    /\ worker[id].posted = "_on_search_error"
    /\ \A k \in 1..Len(ui_queue) : ui_queue[k].load # id

\* C11: when the grid-construction step of a load raises, the failure is
\* reported, the progress dialog of the load is closed, and
\* current_network, the map display's network and its map lines are what
\* they were when the load started.
C11_FailedBuildLeavesPriorState ==
    \A id \in 1..Len(worker) :
        FailureHandled(id) =>
            /\ Contains(window.messages, "An error occurred: AttributeError")
            /\ window.dialogs[id].shown = FALSE
            /\ current_network = worker[id].prior_network
            /\ map_display = worker[id].prior_display

\* a load has failed in its build step and its error has been handled
C11_Witness ==
    \E id \in 1..Len(worker) :
        /\ FailureHandled(id)
        /\ window.status = "Error occurred"
        /\ window.dialogs[id].current_step = 4

\* (x, y) lies in the visible range of the network
InVisibleRange(x, y) ==
    0 <= x /\ x < grid_width /\ 0 <= y /\ y < grid_height

\* the extended-grid key of visible position (x, y)
ExtendedKey(x, y) ==
    <<x + viewport_grid.viewport_offset_x, y + viewport_grid.viewport_offset_y>>

\* C12: after build_grid, get_cell_details(x, y) never raises, returns
\* "Invalid position" if and only if (x, y) is outside 0 <= x < grid_width,
\* 0 <= y < grid_height, and every visible position in range translates to
\* a key of the extended grid.
C12_InvalidPositionIffOutside ==
    (result.op = "get_cell_details" /\ viewport_grid # NoneObject) =>
        LET x == result.args[1]
            y == result.args[2]
        IN  /\ result.raised = NoException
            /\ (result.ret = "Invalid position") <=> ~InVisibleRange(x, y)
            /\ InVisibleRange(x, y) => ExtendedKey(x, y) \in DOMAIN extended_grid

\* get_cell_details answered for the last visible cell of a built network
\* that holds features
C12_Witness ==
    /\ result.op = "get_cell_details"
    /\ viewport_grid # NoneObject
    /\ result.args = <<grid_width - 1, grid_height - 1>>
    /\ result.raised = NoException
    /\ result.ret # "Invalid position"
    /\ Len(streets) > 0

\* none of the four feature flags of cell c is set
NoFlagSet(c) ==
    ~c.has_street /\ ~c.has_pedestrian_path /\ ~c.has_building
        /\ ~c.is_intersection

\* C13: for a valid visible position of a built network, get_cell_details
\* returns "Empty area" if and only if none of the four feature flags of
\* the cell is set.
C13_EmptyAreaIffNoFlag ==
    (result.op = "get_cell_details" /\ viewport_grid # NoneObject
        /\ InVisibleRange(result.args[1], result.args[2])
        /\ result.raised = NoException) =>
        ((result.ret = "Empty area") <=>
            NoFlagSet(extended_grid[ExtendedKey(result.args[1],
                                                result.args[2])]))

\* the rectangle 0 <= x < 2 * width, 0 <= y < 2 * height
ExtendedRectangle ==
    (0..(2 * viewport_config.width - 1))
        \X (0..(2 * viewport_config.height - 1))

\* C14: after every build_grid the key set of extended_grid is exactly
\* {(x, y) : 0 <= x < extended_width, 0 <= y < extended_height}, with
\* extended_width = 2 * width and extended_height = 2 * height, whatever
\* the feature lists hold.
C14_ExtendedGridIsDense ==
    viewport_grid # NoneObject =>
        /\ viewport_grid.extended_width = 2 * viewport_config.width
        /\ viewport_grid.extended_height = 2 * viewport_config.height
        /\ DOMAIN extended_grid = ExtendedRectangle

\* a vertex or point of the network lies outside the extended grid
HoldsFeatureOutsideGrid ==
    \/ \E i \in 1..Len(streets) : \E k \in 1..Len(streets[i].coordinates) :
           LET g == VertexCell(projection, viewport_grid, viewport_config,
                               streets[i].coordinates[k])
           IN  ~is_valid_extended_position(viewport_grid, g[1], g[2])
    \/ \E i \in 1..Len(intersections) :
           LET g == VertexCell(projection, viewport_grid, viewport_config,
                               <<intersections[i].lat, intersections[i].lon>>)
           IN  ~is_valid_extended_position(viewport_grid, g[1], g[2])

\* a grid built at the second center from lists with a feature that lies
\* partly outside it
C14_Witness ==
    /\ viewport_grid # NoneObject
    /\ result.op = "build_grid"
    /\ <<center_lat, center_lon>> # <<Lat60, 0>>
    /\ HoldsFeatureOutsideGrid
    /\ \E pos \in DOMAIN extended_grid : extended_grid[pos].has_street

\* the extended-grid cells a street or path visits: the points of the lines
\* between its consecutive vertices
CellsOfLine(f) ==
    UNION {LET a == VertexCell(projection, viewport_grid, viewport_config,
                               f.coordinates[i])
               b == VertexCell(projection, viewport_grid, viewport_config,
                               f.coordinates[i + 1])
               pts == _line_points(a[1], a[2], b[1], b[2])
           IN  {pts[k] : k \in 1..Len(pts)} :
           i \in 1..(Len(f.coordinates) - 1)}

\* the extended-grid cell of a building
CellOfBuilding(b) ==
    VertexCell(projection, viewport_grid, viewport_config, <<b.lat, b.lon>>)

RECURSIVE FirstSeen(_)
\* seq without the repetitions of an earlier entry
FirstSeen(seq) ==
    IF Len(seq) = 0 THEN <<>>
    ELSE LET front == FirstSeen(SubSeq(seq, 1, Len(seq) - 1))
             last == seq[Len(seq)]
         IN  IF Contains(front, last) THEN front ELSE Append(front, last)

RECURSIVE NamesOfLinesAt(_, _, _)
\* the names of the streets or paths k, k+1, ... of the list that visit pos
NamesOfLinesAt(features, k, pos) ==
    IF k > Len(features) THEN <<>>
    ELSE (IF pos \in CellsOfLine(features[k])
          THEN <<features[k].name>> ELSE <<>>)
             \o NamesOfLinesAt(features, k + 1, pos)

RECURSIVE BuildingsAt(_, _, _)
\* the (name, address) pairs of the buildings k, k+1, ... that lie in pos
BuildingsAt(bs, k, pos) ==
    IF k > Len(bs) THEN <<>>
    ELSE (IF CellOfBuilding(bs[k]) = pos
          THEN <<(<<bs[k].name, AddressOrEmpty(bs[k].address)>>)>> ELSE <<>>)
             \o BuildingsAt(bs, k + 1, pos)

NoDuplicates(seq) ==
    \A i \in 1..Len(seq), j \in 1..Len(seq) : seq[i] = seq[j] => i = j

\* C15: in every cell after build_grid, street_names, pedestrian_path_names
\* and building_info hold no entry twice, and hold their entries in the
\* order in which the features that first touched the cell occur in the
\* feature lists of the network.
C15_NamesDeduplicatedInFirstSeenOrder ==
    (viewport_grid # NoneObject /\ result.op = "build_grid") =>
        \A pos \in DOMAIN extended_grid :
            LET c == extended_grid[pos]
            IN  /\ NoDuplicates(c.street_names)
                /\ NoDuplicates(c.pedestrian_path_names)
                /\ NoDuplicates(c.building_info)
                /\ c.street_names = FirstSeen(NamesOfLinesAt(streets, 1, pos))
                /\ c.pedestrian_path_names =
                       FirstSeen(NamesOfLinesAt(pedestrian_paths, 1, pos))
                /\ c.building_info = FirstSeen(BuildingsAt(buildings, 1, pos))

\* a cell visited by "main st" first and by two streets named "Main St"
\* after it
C15_Witness ==
    /\ viewport_grid # NoneObject
    /\ result.op = "build_grid"
    /\ Len(streets) = 3
    /\ streets[2].name = streets[3].name
    /\ \E pos \in DOMAIN extended_grid :
           /\ extended_grid[pos].street_names = <<"main st", "Main St">>
           /\ Len(NamesOfLinesAt(streets, 1, pos)) = 3

\* the four flags of a cell
Flags(c) ==
    <<c.has_street, c.has_pedestrian_path, c.has_building, c.is_intersection>>

\* C16: a second network with the same features at the same center and
\* configuration, its feature lists in another order, has after build_grid
\* the same four flags and the same priority character in every cell of
\* the extended grid.
C16_FlagsIndependentOfListOrder ==
    result.op = "build_grid_reordered" =>
        /\ DOMAIN result.ret.extended_grid = DOMAIN extended_grid
        /\ \A pos \in DOMAIN extended_grid :
               /\ Flags(result.ret.extended_grid[pos]) = Flags(extended_grid[pos])
               /\ get_priority_character(result.ret.extended_grid[pos])
                      = get_priority_character(extended_grid[pos])

\* the second network lists two different streets in the other order, and
\* both grids show a street
C16_Witness ==
    /\ result.op = "build_grid_reordered"
    /\ Len(streets) >= 2
    /\ result.args[1] # streets
    /\ \E pos \in DOMAIN extended_grid :
           /\ extended_grid[pos].has_street
           /\ result.ret.extended_grid[pos].street_names
                  # extended_grid[pos].street_names

\* the priority character of visible cell (x, y) of the built network
VisibleCharacter(x, y) ==
    get_priority_character(extended_grid[ExtendedKey(x, y)])

\* C17: the lines render_map returns correspond cell for cell to the
\* visible window: the character at column j of line i is the priority
\* character of visible cell (j, i); every visible cell right of the end of
\* a line or below the last line is blank; no line ends with a space and
\* the last line is not blank; blank lines before the last one are kept, so
\* the index of a line is its grid row.
C17_RenderedLinesMatchVisibleCells ==
    (result.op = "render_map" /\ viewport_grid # NoneObject
        /\ result.raised = NoException) =>
        LET lines == result.ret
        IN  /\ Len(lines) <= grid_height
            /\ \A i \in 1..Len(lines) :
                   /\ Len(lines[i]) <= grid_width
                   /\ \A j \in 1..Len(lines[i]) :
                          lines[i][j] = VisibleCharacter(j - 1, i - 1)
                   /\ \A j \in (Len(lines[i]) + 1)..grid_width :
                          VisibleCharacter(j - 1, i - 1) = " "
                   /\ Len(lines[i]) > 0 => lines[i][Len(lines[i])] # " "
            /\ \A i \in (Len(lines) + 1)..grid_height :
                   \A j \in 1..grid_width : VisibleCharacter(j - 1, i - 1) = " "
            /\ Len(lines) > 0 => Len(lines[Len(lines)]) > 0

\* render_map returned a blank first line above a line that starts with a
\* blank and was stripped at its end
C17_Witness ==
    /\ result.op = "render_map"
    /\ viewport_grid # NoneObject
    /\ result.raised = NoException
    /\ Len(result.ret) = 2
    /\ Len(result.ret[1]) = 0
    /\ Len(result.ret[2]) = 2
    /\ result.ret[2][1] = " "

\* the network holds no street, path, building or intersection
NoFeatures ==
    Len(streets) = 0 /\ Len(pedestrian_paths) = 0 /\ Len(buildings) = 0
        /\ Len(intersections) = 0

\* C18: render_map on a StreetNetwork with no street, path, building or
\* intersection and the default 40 x 40 viewport returns zero lines, and on
\* a network whose grid_width or grid_height is zero it returns the single
\* line "No map data available".
C18_RenderOfEmptyNetwork ==
    result.op = "render_map" =>
        /\ (grid_width = 0 \/ grid_height = 0) =>
               /\ result.raised = NoException
               /\ result.ret = <<NoMapDataLine>>
        /\ (NoFeatures /\ viewport_config = DefaultViewportConfig) =>
               /\ result.raised = NoException
               /\ result.ret = <<>>

\* C19: get_map_summary returns exactly "No map data found in this area."
\* whenever the network has no street, no pedestrian path and no building,
\* whatever its grid dimensions.
C19_SummaryOfEmptyNetwork ==
    (result.op = "get_map_summary" /\ Len(streets) = 0
        /\ Len(pedestrian_paths) = 0 /\ Len(buildings) = 0) =>
        result.ret = "No map data found in this area."

\* floor(x / cell_size + extended_width / 2) and
\* floor(-y / cell_size + extended_height / 2), x and y in 1/Fix metre
\* (\div rounds toward minus infinity)
FloorCell(x, y) ==
    LET c == viewport_config.cell_size_meters * Fix
    IN  <<(2 * x + viewport_grid.extended_width * c) \div (2 * c),
          (2 * (-y) + viewport_grid.extended_height * c) \div (2 * c)>>

\* C20: meters_to_extended_grid(x, y) is (floor(x / cell_size +
\* extended_width / 2), floor(-y / cell_size + extended_height / 2)) for
\* every input, so a point less than one cell beyond the west or north edge
\* of the extended area maps to index -1 and fails
\* is_valid_extended_position.
C20_MetersToGridIsFloor ==
    (result.op = "meters_to_extended_grid" /\ viewport_grid # NoneObject) =>
        LET x == result.args[1]
            y == result.args[2]
            c == viewport_config.cell_size_meters * Fix
            west == -(viewport_grid.extended_width * c) \div 2
            north == (viewport_grid.extended_height * c) \div 2
        IN  /\ result.ret = FloorCell(x, y)
            /\ (west - c < x /\ x < west) =>
                   /\ result.ret[1] = -1
                   /\ ~is_valid_extended_position(viewport_grid, result.ret[1],
                                                  result.ret[2])
            /\ (north < y /\ y < north + c) =>
                   /\ result.ret[2] = -1
                   /\ ~is_valid_extended_position(viewport_grid, result.ret[1],
                                                  result.ret[2])


\* (2 * MarginFix * half_diagonal * margin_factor) squared, for the viewport
\* of the network: half_diagonal * margin_factor is the square root of
\* ((width * cell)^2 + (height * cell)^2) * margin^2 / (2 * MarginFix)^2
ScaledMarginDiagonalSquared(config) ==
    ((config.width * config.cell_size_meters)
         * (config.width * config.cell_size_meters)
     + (config.height * config.cell_size_meters)
         * (config.height * config.cell_size_meters))
        * config.margin_factor * config.margin_factor

AtMostInSize(a, b) ==
    /\ a.width <= b.width
    /\ a.height <= b.height
    /\ a.cell_size_meters <= b.cell_size_meters
    /\ a.margin_factor = b.margin_factor

\* C22: the radius does not decrease when the width, the height or the cell
\* size grows (the others held fixed), and the radius at margin factor 1 is
\* at most the radius at any margin factor of 1 or more.
C22_RadiusIsMonotone ==
    result.op = "get_required_radius" =>
        \A other \in RadiusConfigs :
            /\ AtMostInSize(viewport_config, other) =>
                   result.ret <= calculate_required_radius(other)
            /\ AtMostInSize(other, viewport_config) =>
                   calculate_required_radius(other) <= result.ret
            /\ (other.margin_factor >= MarginFix) =>
                   calculate_required_radius(
                       [other EXCEPT !.margin_factor = MarginFix])
                       <= calculate_required_radius(other)

C22_Witness ==
    /\ result.op = "get_required_radius"
    /\ viewport_config = ViewportConfig(DefaultWidth, DefaultHeight,
                                        DefaultCellSizeMeters, MarginFix)
    /\ result.ret = 708
    /\ calculate_required_radius(DefaultViewportConfig) > result.ret

\* sign * m * 2^e of a float as an integer count of 2^-FloatScale, for
\* magnitudes from 2^-FloatScale to below 2^(31 - FloatScale) degrees
FloatScale == MantissaBits + 10

Scaled(a) == a.sign * a.m * Pow2(a.e + FloatScale)

\* C23 as stated: meters_to_latlon(project_to_meters(lat, lon)) returns
\* exactly (lat, lon), and project_to_meters(center) is exactly (0, 0).
C23_Original ==
    /\ (result.op = "meters_to_latlon") => result.ret = result.args
    /\ (result.op = "project_to_meters"
           /\ result.args = <<projection.center_lat, projection.center_lon>>)
           => result.ret = <<FloatZero, FloatZero>>

\* a coordinate returned is within 2^-(MantissaBits - 3) of the larger of
\* the coordinate given and the center's, relatively: a few units in the
\* last place
WithinTolerance(returned, given, center) ==
    /\ \/ returned.m = 0
       \/ /\ returned.e + FloatScale >= 0
          /\ returned.e + MantissaBits + FloatScale <= 31
    /\ Abs(Scaled(returned) - Scaled(given))
           <= Max(Abs(Scaled(given)), Abs(Scaled(center)))
                  \div Pow2(MantissaBits - 3)

\* C23, amended: project_to_meters(center) is exactly (0, 0), and
\* meters_to_latlon(project_to_meters(lat, lon)) returns (lat, lon) within
\* floating-point tolerance, not always exactly.
C23_RoundTripWithinTolerance ==
    /\ (result.op = "meters_to_latlon") =>
           /\ result.raised = NoException
           /\ WithinTolerance(result.ret[1], result.args[1],
                              projection.center_lat)
           /\ WithinTolerance(result.ret[2], result.args[2],
                              projection.center_lon)
    /\ (result.op = "project_to_meters"
           /\ result.args = <<projection.center_lat, projection.center_lon>>)
           => result.ret = <<FloatZero, FloatZero>>

C23_Witness ==
    /\ result.op = "meters_to_latlon"
    /\ result.ret # result.args
    /\ projection.center_lat = Float(0, 0)
    /\ result.args[1] = Float(-357, -15)

\* C24: _line_points(x1, y1, x2, y2) returns max(|x2-x1|, |y2-y1|) + 1
\* points, point i being (trunc(x1 + i*(x2-x1)/steps), trunc(y1 +
\* i*(y2-y1)/steps)), and the one point (x1, y1) for identical endpoints.
C24_LinePointsAreTruncatedInterpolation ==
    result.op = "_line_points" =>
        LET x1 == result.args[1]
            y1 == result.args[2]
            x2 == result.args[3]
            y2 == result.args[4]
            steps == Max(Abs(x2 - x1), Abs(y2 - y1))
        IN  /\ Len(result.ret) = steps + 1
            /\ (x1 = x2 /\ y1 = y2) => result.ret = <<(<<x1, y1>>)>>
            /\ steps > 0 =>
                   \A i \in 0..steps :
                       result.ret[i + 1] =
                           <<TruncDiv(x1 * steps + i * (x2 - x1), steps),
                             TruncDiv(y1 * steps + i * (y2 - y1), steps)>>

\* C25: the point list starts at (x1, y1), ends at (x2, y2), and any two
\* consecutive points are distinct and differ by at most 1 in each
\* coordinate.
C25_LinePointsLeaveNoGap ==
    result.op = "_line_points" =>
        LET pts == result.ret
        IN  /\ pts[1] = <<result.args[1], result.args[2]>>
            /\ pts[Len(pts)] = <<result.args[3], result.args[4]>>
            /\ \A i \in 1..(Len(pts) - 1) :
                   /\ pts[i] # pts[i + 1]
                   /\ Abs(pts[i + 1][1] - pts[i][1]) <= 1
                   /\ Abs(pts[i + 1][2] - pts[i][2]) <= 1

\* each category flag of a cell agrees with its accumulation list
FlagsAgreeWithLists(c) ==
    /\ c.has_street <=> Len(c.street_names) > 0
    /\ c.has_pedestrian_path <=> Len(c.pedestrian_path_names) > 0
    /\ c.has_building <=> Len(c.building_info) > 0

\* C26: in every cell after build_grid, has_street is true iff street_names
\* is non-empty, has_pedestrian_path iff pedestrian_path_names is non-empty
\* and has_building iff building_info is non-empty; get_cell_details never
\* returns "Location".
C26_FlagsAgreeWithLists ==
    /\ viewport_grid # NoneObject =>
           \A pos \in DOMAIN extended_grid :
               FlagsAgreeWithLists(extended_grid[pos])
    /\ result.op = "get_cell_details" => result.ret # "Location"

C26_Witness ==
    /\ viewport_grid # NoneObject
    /\ result.op = "get_cell_details"
    /\ InVisibleRange(result.args[1], result.args[2])
    /\ LET c == extended_grid[ExtendedKey(result.args[1], result.args[2])]
       IN  /\ c.has_street /\ c.has_pedestrian_path /\ c.has_building
           /\ Len(c.street_names) > 0
           /\ result.ret # "Empty area"
    /\ \E pos \in DOMAIN extended_grid :
           /\ ~extended_grid[pos].has_street
           /\ Len(extended_grid[pos].street_names) = 0

\* C27: on a StreetNetwork that build_grid never ran on, the read
\* operations do not raise: get_cell_details(x, y) returns a sentinel string
\* ("Invalid position" or "Empty area") for every (x, y), in range or not,
\* and render_map returns a list of lines.
C27_ReadsOfUnbuiltNetworkNeverRaise ==
    viewport_grid = NoneObject =>
        /\ result.op = "get_cell_details" =>
               /\ result.raised = NoException
               /\ result.ret \in {"Invalid position", "Empty area"}
        /\ result.op = "render_map" =>
               /\ result.raised = NoException
               /\ result.ret \in Seq(STRING)

\* every load started has run to its end and the UI thread has run every
\* call the workers queued
AllLoadsCompleted ==
    /\ \A id \in 1..Len(worker) : worker[id].pc = "done"
    /\ ui_queue = <<>>

\* C29: when a load was requested while the worker of the previous one was
\* still running, then once both workers have completed the installed
\* current_network is the one built for the load requested last, the one of
\* current_address.
C29_LatestLoadIsInstalled ==
    (Len(worker) = 2 /\ worker[2].overlapped /\ AllLoadsCompleted) =>
        /\ current_network # NoneObject
        /\ current_network.center_lat = current_address.lat
        /\ current_network.center_lon = current_address.lon
        /\ map_display.network = current_network

\* the step is one of the worker of load id: its position advances
WorkerSteps(id) == worker'[id].pc # worker[id].pc

\* the step is one of the UI thread: it runs a queued call or starts a load
UIThreadSteps ==
    \/ ui_queue' = Tail(ui_queue) /\ Len(ui_queue) > 0
    \/ Len(worker') = Len(worker) + 1

IsLegendOfLine(d, line_y, text) ==
    \E grid_x \in 0..(d.network.grid_width - 1) :
        LET details == DisplayCellDetails(d, grid_x, line_y)
        IN  /\ details.raised = NoException
            /\ details.ret \notin NothingToAnnounce
            /\ text = " " \o details.ret

\* the control holds the map lines and nothing else but the legend the
\* display keeps track of
HoldsAtMostOneLegend(d) ==
    IF d.legend_length > 0
    THEN /\ 0 <= d.legend_line_y /\ d.legend_line_y < Len(d.map_lines)
         /\ d.legend_start_pos =
                LengthOfLinesBefore(d.map_lines, d.legend_line_y)
                    + Len(d.map_lines[d.legend_line_y + 1])
         /\ d.legend_start_pos + d.legend_length <= Len(d.value)
         /\ LET text == MapText(d.map_lines)
                legend == SubSeq(d.value, d.legend_start_pos + 1,
                                 d.legend_start_pos + d.legend_length)
            IN  /\ d.value = SubSeq(text, 1, d.legend_start_pos) \o legend
                                 \o SubSeq(text, d.legend_start_pos + 1, Len(text))
                /\ IsLegendOfLine(d, d.legend_line_y, legend)
    ELSE d.value = MapText(d.map_lines)

====
